---- MODULE Spec2Model ----
(***************************************************************************)
(* Event triggering and segment extraction of FlowCyPy.                    *)
(*                                                                         *)
(* TriggeringSystem (cpp/triggering_system/triggering_system.cpp) scans    *)
(* one designated channel for threshold crossings with one of three        *)
(* schemes and slices every registered channel into segments.  Trigger     *)
(* (cpp/trigger/trigger.cpp) is the segment extractor of the later         *)
(* revision.  Indices are 0-based as in the C++; At(s, i) reads s[i].      *)
(* Sample values are integers: the bounded inputs use small levels around  *)
(* the threshold, the concrete scenarios a fixed-point scale.              *)
(***************************************************************************)
EXTENDS Integers, Sequences, FiniteSets, TLC

\* ---------------------------------------------------------------- bounds
MaxLen == 4
MaxPre == 2
MaxPost == 1
MaxTriggers == 2
MaxMinDur == 2
MaxRuns == 2
MaxSegCalls == 2

\* ------------------------------------------------------------- utilities
At(s, i) == s[i + 1]

Min(a, b) == IF a < b THEN a ELSE b

Max(a, b) == IF a > b THEN a ELSE b

RECURSIVE SeqsUpTo(_, _)
SeqsUpTo(S, n) ==
    IF n = 0 THEN {<<>>}
    ELSE LET shorter == SeqsUpTo(S, n - 1)
         IN  shorter \cup {Append(s, x) : s \in {t \in shorter : Len(t) = n - 1}, x \in S}

\* lower_threshold is a double that may be NaN (the "unspecified" sentinel)
NaN == [isnan |-> TRUE, v |-> 0]

Num(x) == [isnan |-> FALSE, v |-> x]

\* ------------------------------------------------- threshold-crossing scan
\* variant that tests the level of sample i alone
RisingEdge_LevelOnly(sig, i, thr) == At(sig, i) > thr

\* the rising-edge test shared by the three schemes
RisingEdge(sig, i, thr) == At(sig, i - 1) <= thr /\ At(sig, i) > thr

\* `while (j < n_trigger && trigger_signal[j] > level) ++j;`
RECURSIVE AdvanceWhileAbove(_, _, _)
AdvanceWhileAbove(sig, j, level) ==
    IF j < Len(sig) /\ At(sig, j) > level
    THEN AdvanceWhileAbove(sig, j + 1, level)
    ELSE j

\* variant that records the crossing sample itself
find_trigger_index_AtCrossing(i) == i

\* find_trigger_indices: records i - 1 for every rising edge i
find_trigger_index(i) == i - 1

\* the loop `for (i = 1; i < signal_size; ++i)` visits 1, 2, ... in order and
\* keeps the crossings
find_trigger_indices(sig, thr) ==
    LET visited   == [q \in 1..(Len(sig) - 1) |-> q]
        crossings == SelectSeq(visited, LAMBDA i : RisingEdge(sig, i, thr))
    IN  [q \in 1..Len(crossings) |-> find_trigger_index(crossings[q])]

\* variant that stops one window late
MaxReached_OneLate(valid, maxtr) == maxtr > 0 /\ Len(valid) > maxtr

\* `max_triggers > 0 && valid_triggers.size() >= max_triggers`
MaxReached(valid, maxtr) == maxtr > 0 /\ Len(valid) >= maxtr

\* One scan yields the accepted windows (valid) and, as a history of the
\* scan, one record per crossing it looked at (cands): the rising-edge
\* index, the candidate window, last_end before and after the decision,
\* and the verdict.
ScanResult(valid, cands) == [valid |-> valid, cands |-> cands]

Cand(edge, start, end, before, after, verdict) ==
    [edge |-> edge, start |-> start, end |-> end,
     last_end |-> before, last_end_after |-> after, verdict |-> verdict]

\* variant that moves last_end for every candidate compared with it
NextLastEnd_Always(acc, end, last_end) == end

\* `if (start > last_end) { valid_triggers.emplace_back(start, end);
\* last_end = end; }`: last_end after a candidate has been compared
NextLastEnd(acc, end, last_end) == IF acc THEN end ELSE last_end

\* apply_buffer_constraints: the loop over trigger_indices from position p
RECURSIVE BufferLoop(_, _, _, _, _, _, _, _, _)
BufferLoop(idxs, p, pre, post, n, maxtr, valid, last_end, cands) ==
    IF p > Len(idxs) THEN ScanResult(valid, cands)
    ELSE LET idx   == idxs[p]
             start == idx - pre
             end   == idx + post
         IN  IF start < 0 \/ end >= n
             THEN BufferLoop(idxs, p + 1, pre, post, n, maxtr, valid, last_end,
                             Append(cands, Cand(idx + 1, start, end, last_end, last_end, "bounds")))
             ELSE LET acc    == start > last_end
                      valid2 == IF acc THEN Append(valid, <<start, end>>) ELSE valid
                      le2    == NextLastEnd(acc, end, last_end)
                      cands2 == Append(cands, Cand(idx + 1, start, end, last_end, le2,
                                                   IF acc THEN "accepted" ELSE "overlap"))
                  IN  IF MaxReached(valid2, maxtr)
                      THEN ScanResult(valid2, cands2)
                      ELSE BufferLoop(idxs, p + 1, pre, post, n, maxtr, valid2, le2, cands2)

apply_buffer_constraints(idxs, pre, post, n, maxtr) ==
    BufferLoop(idxs, 1, pre, post, n, maxtr, <<>>, -1, <<>>)

\* the pre-buffer argument run_fixed_window hands to apply_buffer_constraints
FixedPreArg(pre) == pre - 1

run_fixed_window(sig, thr, pre, post, maxtr) ==
    apply_buffer_constraints(find_trigger_indices(sig, thr),
                             FixedPreArg(pre), post, Len(sig), maxtr)

\* window bounds of the two dynamic schemes (clamped, never rejected)
DynStart(i, pre) == LET s == i - pre IN IF s < 0 THEN 0 ELSE s

\* variant without the clamp to the last sample
DynEnd_Unclamped(j, post, n) == j - 1 + post

DynEnd(j, post, n) == LET e == j - 1 + post IN IF e >= n THEN n - 1 ELSE e

\* run_dynamic: the for loop from index i
RECURSIVE DynamicLoop(_, _, _, _, _, _, _, _, _)
DynamicLoop(sig, i, thr, pre, post, maxtr, valid, last_end, cands) ==
    IF i >= Len(sig) THEN ScanResult(valid, cands)
    ELSE IF RisingEdge(sig, i, thr)
         THEN LET start  == DynStart(i, pre)
                  j      == AdvanceWhileAbove(sig, i, thr)
                  end    == DynEnd(j, post, Len(sig))
                  acc    == start > last_end
                  valid2 == IF acc THEN Append(valid, <<start, end>>) ELSE valid
                  le2    == NextLastEnd(acc, end, last_end)
                  cands2 == Append(cands, Cand(i, start, end, last_end, le2,
                                               IF acc THEN "accepted" ELSE "overlap"))
              IN  IF MaxReached(valid2, maxtr)
                  THEN ScanResult(valid2, cands2)
                  ELSE DynamicLoop(sig, j + 1, thr, pre, post, maxtr, valid2, le2, cands2)
         ELSE DynamicLoop(sig, i + 1, thr, pre, post, maxtr, valid, last_end, cands)

run_dynamic(sig, thr, pre, post, maxtr) ==
    DynamicLoop(sig, 1, thr, pre, post, maxtr, <<>>, -1, <<>>)

\* the debounce counting loop: returns <<j, count>>.  The model draws
\* min_window_duration from -1 and the naturals, and the loop is entered
\* only when it is not -1, so its conversion to size_t keeps the value.
RECURSIVE DebounceCount(_, _, _, _, _)
DebounceCount(sig, j, count, thr, mwd) ==
    IF j < Len(sig) /\ At(sig, j) > thr
    THEN IF count + 1 >= mwd
         THEN <<j + 1, count + 1>>
         ELSE DebounceCount(sig, j + 1, count + 1, thr, mwd)
    ELSE <<j, count>>

\* off-by-one variant of the noise test: a run one sample short passes
DebounceRejects_OffByOne(count, mwd) == count + 1 < mwd

\* `if (count < static_cast<size_t>(min_window_duration))`: reject as noise
DebounceRejects(count, mwd) == count < mwd

\* variant that extends only while above the rising threshold
HysteresisLevel_Rising(thr, lower) == thr

\* the level the hysteresis extension compares with
HysteresisLevel(thr, lower) == lower

\* run_dynamic_single_threshold: the for loop from index i; lower is the
\* effective lower threshold (NaN already replaced)
RECURSIVE DoubleLoop(_, _, _, _, _, _, _, _, _, _, _, _)
DoubleLoop(sig, i, thr, lower, pre, post, maxtr, deb, mwd, valid, last_end, cands) ==
    IF i >= Len(sig) THEN ScanResult(valid, cands)
    ELSE IF RisingEdge(sig, i, thr)
         THEN LET dc       == DebounceCount(sig, i, 0, thr, mwd)
                  checked  == deb /\ mwd # -1
                  rejected == checked /\ DebounceRejects(dc[2], mwd)
                  j        == IF checked THEN dc[1] ELSE AdvanceWhileAbove(sig, i, thr)
              IN  IF rejected
                  THEN DoubleLoop(sig, j + 1, thr, lower, pre, post, maxtr, deb, mwd,
                                  valid, last_end,
                                  Append(cands, Cand(i, i, j - 1, last_end, last_end, "debounce")))
                  ELSE LET start  == DynStart(i, pre)
                           k      == AdvanceWhileAbove(sig, j, HysteresisLevel(thr, lower))
                           end    == DynEnd(k, post, Len(sig))
                           acc    == start > last_end
                           valid2 == IF acc THEN Append(valid, <<start, end>>) ELSE valid
                           le2    == NextLastEnd(acc, end, last_end)
                           cands2 == Append(cands, Cand(i, start, end, last_end, le2,
                                                        IF acc THEN "accepted" ELSE "overlap"))
                       IN  IF MaxReached(valid2, maxtr)
                           THEN ScanResult(valid2, cands2)
                           ELSE DoubleLoop(sig, k + 1, thr, lower, pre, post, maxtr, deb, mwd,
                                           valid2, le2, cands2)
         ELSE DoubleLoop(sig, i + 1, thr, lower, pre, post, maxtr, deb, mwd,
                         valid, last_end, cands)

\* variant that replaces the NaN sentinel by zero
EffectiveLower_Zero(thr, lower) == IF lower.isnan THEN Num(0) ELSE lower

\* `if (std::isnan(lower_threshold)) lower_threshold = threshold;`
EffectiveLower(thr, lower) == IF lower.isnan THEN Num(thr) ELSE lower

run_dynamic_single_threshold(sig, thr, lower, pre, post, maxtr, deb, mwd) ==
    DoubleLoop(sig, 1, thr, EffectiveLower(thr, lower).v, pre, post, maxtr, deb, mwd,
               <<>>, -1, <<>>)

\* ------------------------------------------------------ segment extraction
\* the sample indices the extraction loop visits for window w of a buffer
\* of the given size: `for (i = start; i <= end; ++i) { if (i >= size) break;`
SliceIndices(w, size) ==
    LET hi  == Min(w[2], size - 1)
        cnt == IF hi >= w[1] THEN hi - w[1] + 1 ELSE 0
    IN  [q \in 1..cnt |-> w[1] + q - 1]

Gather(buf, idxs) == [q \in 1..Len(idxs) |-> At(buf, idxs[q])]

Fill(idxs, x) == [q \in 1..Len(idxs) |-> x]

\* what extract_signal_segments finds in a channel's output vectors when it
\* starts to append to them
OutputsAtEntry(t) == t

\* TriggeringSystem::extract_signal_segments, for one entry of `triggers`:
\* windows k, k+1, ... are appended with segment ids k-1, k, ...
RECURSIVE ExtractInto(_, _, _, _)
ExtractInto(t, windows, k, time) ==
    IF k > Len(windows) THEN t
    ELSE LET idxs == SliceIndices(windows[k], Len(t.signal))
         IN  ExtractInto([t EXCEPT !.signal_out      = @ \o Gather(t.signal, idxs),
                                   !.time_out        = @ \o Gather(time, idxs),
                                   !.segment_ids_out = @ \o Fill(idxs, k - 1)],
                         windows, k + 1, time)

extract_signal_segments(trigs, windows, time) ==
    [p \in DOMAIN trigs |-> ExtractInto(OutputsAtEntry(trigs[p]), windows, 1, time)]

\* ------------------------------------------------------------------ state
VARIABLES
    scheme, threshold, lower_threshold, pre_buffer, post_buffer, max_triggers,
    debounce_enabled, min_window_duration,   \* TriggeringSystem parameters
    triggers,          \* vector of {detector_name, signal, time_out, signal_out, segment_ids_out}
    global_time,       \* the shared time axis
    valid_triggers,    \* windows returned by the scan of the latest run
    cands,             \* history of that scan: one record per crossing examined
    runs,              \* number of calls of run() so far
    status,            \* outcome of the latest run(): "none", "ok", "warned", "error"
    signal_segments,   \* Trigger::signal_segments, name -> concatenated segments
    time_out,          \* Trigger::time_out
    segment_ids_out,   \* Trigger::segment_ids_out
    seg_calls,         \* number of calls made on the Trigger object
    data_dict,         \* SignalGenerator::data_dict, name -> samples (units of 1/2)
    n_elements,        \* SignalGenerator::n_elements
    random_generator,  \* SignalGenerator::random_generator, [seed, pos]
    twin_dict,         \* data_dict of a second store built with the same seed
    twin_generator,    \* random_generator of that second store
    prev_dict,         \* data_dict as it was when the latest call began
    last_call,         \* the latest call on the store and how it ended
    calls,             \* number of calls made on the store(s)
    signal,            \* the vector handed to a free filter function
    orig_signal,       \* that vector as it was when the latest filter call began
    filter_call,       \* the latest filter call and how it ended
    held,              \* FFT plans and buffers acquired and not yet released
    filter_calls,      \* number of filter calls so far
    total_power,       \* output array of FlowCyPySim::get_acquisition
    pending,           \* loop iterations (particle indexes) no thread has taken yet
    loaded,            \* per thread: the iteration it runs, its t_idx, and the
                       \* sample value it holds while an add is in progress
    particles,         \* the pulses: width, center and coupling power of each
    m_background_power, \* FlowCyPySim::background_power
    circuit,           \* BaseLineRestoration::process in progress on the store:
                       \* window_size, the map entries no thread has taken yet,
                       \* each thread's position, and who has written which channel
    scan               \* a run() followed step by step: the statement it is at
                       \* and the locals i, j, k, count, trigger_indices, last_end
                       \* of the scan and of the extraction loops

params == <<scheme, threshold, pre_buffer, post_buffer, max_triggers,
            debounce_enabled, min_window_duration, global_time>>

sysvars == <<lower_threshold, triggers, valid_triggers, cands, runs, status, scan>>

segvars == <<signal_segments, time_out, segment_ids_out, seg_calls>>

storevars == <<data_dict, n_elements, random_generator, twin_dict, twin_generator,
               prev_dict, last_call, calls, circuit>>

filtervars == <<signal, orig_signal, filter_call, held, filter_calls>>

acqvars == <<total_power, pending, loaded, particles, m_background_power>>

vars == <<params, sysvars, segvars, storevars, filtervars, acqvars>>

trigger_detector_name == "A"

\* no run() is being followed step by step
NoScan == [pc |-> "none", i |-> 0, j |-> 0, k |-> 0, count |-> 0, idxs |-> <<>>,
           p |-> 0, last_end |-> -1, c |-> 0, w |-> 0, x |-> 0, crossing |-> 0]

\* no circuit is processing the store
NoCircuit == [window_size |-> 0, todo |-> {}, workers |-> <<>>, writes |-> <<>>,
              outcome |-> "none"]

\* signal_map: detector name -> registered signal (add_signal stores the
\* same array in `triggers` and in signal_map)
signal_map ==
    [d \in {triggers[p].detector_name : p \in DOMAIN triggers} |->
        (CHOOSE p \in DOMAIN triggers : triggers[p].detector_name = d) ]

SignalOf(d) == triggers[signal_map[d]].signal

\* the entry get_signal_out / get_time_out / get_segment_ID return from
GetTrigger(d) == triggers[signal_map[d]]

Detectors == DOMAIN signal_map

TriggerSignalOfMap == SignalOf(trigger_detector_name)

\* the scan run() dispatches to
RunScheme(sig) ==
    CASE scheme = "fixed-window" ->
            run_fixed_window(sig, threshold, pre_buffer, post_buffer, max_triggers)
      [] scheme = "dynamic" ->
            run_dynamic_single_threshold(sig, threshold, lower_threshold, pre_buffer,
                                         post_buffer, max_triggers, debounce_enabled,
                                         min_window_duration)
      [] scheme = "dynamic-simple" ->
            run_dynamic(sig, threshold, pre_buffer, post_buffer, max_triggers)
      [] OTHER -> ScanResult(<<>>, <<>>)

\* ---------------------------------------------------------------- initial
NewTrigger(name, sig) ==
    [detector_name |-> name, signal |-> sig,
     time_out |-> <<>>, signal_out |-> <<>>, segment_ids_out |-> <<>>]

\* a second registered channel of the same length, with values of its own
Companion(sig) == [q \in 1..Len(sig) |-> 10 * q + sig[q]]

TimeAxis(n) == [q \in 1..n |-> q - 1]

Populated(sig) ==
    /\ triggers = <<NewTrigger("A", sig), NewTrigger("B", Companion(sig))>>
    /\ global_time = TimeAxis(Len(sig))
    /\ valid_triggers = <<>>
    /\ cands = <<>>
    /\ scan = NoScan
    /\ runs = 0
    /\ status = "none"
    /\ signal_segments = <<>>
    /\ time_out = <<>>
    /\ segment_ids_out = <<>>
    /\ seg_calls = 0

\* sample levels around threshold 1: 0 is at most every lower threshold
\* drawn, 1 is at most the threshold, 2 exceeds it
Levels == {0, 1, 2}

Signals == SeqsUpTo(Levels, MaxLen)

MaxTriggerValues == -1..MaxTriggers

LowerThresholds == {NaN, Num(0), Num(1), Num(2)}

\* debounce on with every duration, debounce off with the check disabled or
\* with the longest duration
DebounceSettings ==
    {<<TRUE, m>> : m \in -1..MaxMinDur} \cup {<<FALSE, -1>>, <<FALSE, MaxMinDur>>}

\* a system constructed with bounded parameters, with its time axis and two
\* channels added; parameters a scheme never reads take their defaults
InitBounded ==
    /\ scheme \in {"fixed-window", "dynamic-simple", "dynamic"}
    /\ threshold = 1
    /\ pre_buffer \in 0..MaxPre
    /\ post_buffer \in 0..MaxPost
    /\ max_triggers \in MaxTriggerValues
    /\ IF scheme = "dynamic"
       THEN /\ lower_threshold \in LowerThresholds
            /\ \E ds \in DebounceSettings :
                   debounce_enabled = ds[1] /\ min_window_duration = ds[2]
       ELSE /\ lower_threshold = NaN
            /\ debounce_enabled = TRUE
            /\ min_window_duration = -1
    /\ \E sig \in Signals : Populated(sig)

\* Scenario A: one Gaussian pulse (width 5, center 100, amplitude 10,
\* background 0) on the time axis 0..199, in units of 1/1000; the table
\* holds round(10000 * exp(-d^2 / 50)) for d = |t - center| = 0, 1, 2, ...
GaussTable == <<10000, 9802, 9231, 8353, 7261, 6065, 4868, 3753, 2780, 1979, 1353,
                889, 561, 340, 198, 111, 60, 31, 15, 7, 3, 1, 1>>

PulseSample(t, center) ==
    LET d == IF t >= center THEN t - center ELSE center - t
    IN  IF d < Len(GaussTable) THEN GaussTable[d + 1] ELSE 0

ScenarioASignal == [q \in 1..200 |-> PulseSample(q - 1, 100)]

InitScenarioA ==
    /\ scheme = "fixed-window"
    /\ threshold = 5000
    /\ pre_buffer = 10
    /\ post_buffer = 10
    /\ max_triggers = -1
    /\ lower_threshold = NaN
    /\ debounce_enabled = TRUE
    /\ min_window_duration = -1
    /\ Populated(ScenarioASignal)

\* Scenario C, in units of 1/2: threshold 1, lower_threshold 0.5,
\* min_window_duration 5, and signals of 8 samples whose only excursion
\* above the threshold is a run of 3 samples (of height 1.5 or 2) after a
\* baseline of 0 or 0.5
ScenarioCSignals ==
    {[q \in 1..8 |-> IF q - 1 \in p..(p + 2) THEN h ELSE b] :
        p \in 1..5, h \in {3, 4}, b \in {0, 1}}

InitScenarioC ==
    /\ scheme = "dynamic"
    /\ threshold = 2
    /\ lower_threshold = Num(1)
    /\ debounce_enabled = TRUE
    /\ min_window_duration = 5
    /\ pre_buffer \in 0..MaxPre
    /\ post_buffer \in 0..MaxPost
    /\ max_triggers = -1
    /\ \E sig \in ScenarioCSignals : Populated(sig)

\* no SignalGenerator has been constructed
StoreIdle ==
    /\ data_dict = <<>>
    /\ n_elements = 0
    /\ random_generator = [seed |-> 0, pos |-> 0]
    /\ twin_dict = <<>>
    /\ twin_generator = [seed |-> 0, pos |-> 0]
    /\ prev_dict = <<>>
    /\ last_call = [op |-> "none", name |-> "", outcome |-> "none", same_size |-> TRUE,
                     pos_before |-> 0]
    /\ calls = 0
    /\ circuit = NoCircuit

\* no free filter function has been called
FilterIdle ==
    /\ signal = <<>>
    /\ orig_signal = <<>>
    /\ filter_call = [op |-> "none", outcome |-> "none", window_size |-> 0,
                       sampling_rate |-> 0, cutoff_freq |-> 0, order |-> 0, gain |-> 0,
                       acquired |-> {}]
    /\ held = {}
    /\ filter_calls = 0

\* no acquisition is under way
AcqIdle ==
    /\ total_power = <<>>
    /\ pending = {}
    /\ loaded = <<>>
    /\ particles = <<>>
    /\ m_background_power = 0

Init == (InitBounded \/ InitScenarioA \/ InitScenarioC) /\ StoreIdle /\ FilterIdle /\ AcqIdle

\* ---------------------------------------------- reads of the time axis
\* the indexes at which extract_signal_segments evaluates time_ptr[i]: every
\* index of a window that passes the test against the channel's buffer_size
TimeIndexesRead(trigs, windows) ==
    UNION {{i \in windows[k][1]..windows[k][2] : i < Len(trigs[p].signal)} :
               p \in DOMAIN trigs, k \in DOMAIN windows}

TimeIndexes(time) == 0..(Len(time) - 1)

RECURSIVE LongestChannel(_)
LongestChannel(trigs) ==
    IF trigs = <<>> THEN 0 ELSE Max(Len(Head(trigs).signal), LongestChannel(Tail(trigs)))

\* what a read of time_ptr[i] at i >= size can return when it returns: the
\* time axis's own values when no such read is made
GarbageValues == {-7, 99}

BeyondTheEnd(trigs, windows, time) ==
    IF TimeIndexesRead(trigs, windows) \subseteq TimeIndexes(time) THEN {0}
    ELSE GarbageValues

\* the doubles found at time_ptr[0 .. size - 1]: the time axis, followed by
\* whatever lies behind its buffer
Memory(time, size, g) ==
    [q \in 1..Max(size, Len(time)) |-> IF q <= Len(time) THEN time[q] ELSE g]

\* ---------------------------------------------------------------- actions
\* variant that treats an empty result as a failure
RunOutcome_Throws(valid) == IF valid = <<>> THEN "error" ELSE "ok"

\* how run() ends once the scan has returned: an empty result only raises a
\* UserWarning ("Returning empty arrays"), it does not throw
RunOutcome(valid) == IF valid = <<>> THEN "warned" ELSE "ok"

\* TriggeringSystem::run()
Run ==
    /\ runs < MaxRuns
    /\ status # "crash"
    /\ runs' = runs + 1
    /\ UNCHANGED <<scan, params, segvars, storevars, filtervars, acqvars>>
    /\ IF trigger_detector_name \notin Detectors \/ Len(global_time) = 0
       THEN /\ status' = "error"
            /\ UNCHANGED <<lower_threshold, triggers, valid_triggers, cands>>
       ELSE LET res == RunScheme(SignalOf(trigger_detector_name))
            IN  /\ lower_threshold' = IF scheme = "dynamic"
                                      THEN EffectiveLower(threshold, lower_threshold)
                                      ELSE lower_threshold
                /\ valid_triggers' = res.valid
                /\ cands' = res.cands
                /\ \/ \E g \in BeyondTheEnd(triggers, res.valid, global_time) :
                          /\ status' = RunOutcome(res.valid)
                          /\ triggers' = extract_signal_segments(
                                             triggers, res.valid,
                                             Memory(global_time, LongestChannel(triggers), g))
                   \/ /\ TimeIndexesRead(triggers, res.valid) \ TimeIndexes(global_time) # {}
                      /\ status' = "crash"
                      /\ UNCHANGED triggers

Next == Run

\* Trigger::extract_time_and_id: appends to time_out and segment_ids_out
\* <<time_out, segment_ids_out>> after the call
RECURSIVE TimeAndIdInto(_, _, _, _, _)
TimeAndIdInto(tout, ids, windows, k, time) ==
    IF k > Len(windows) THEN <<tout, ids>>
    ELSE LET idxs == SliceIndices(windows[k], Len(time))
         IN  TimeAndIdInto(tout \o Gather(time, idxs), ids \o Fill(idxs, k - 1),
                           windows, k + 1, time)

extract_time_and_id(tout, ids, windows, time) == TimeAndIdInto(tout, ids, windows, 1, time)

\* Trigger::extract_signal_segments: a fresh vector per call, bounded by the
\* length of the time axis
RECURSIVE SegmentFrom(_, _, _, _)
SegmentFrom(sig, windows, k, time) ==
    IF k > Len(windows) THEN <<>>
    ELSE Gather(sig, SliceIndices(windows[k], Len(time)))
         \o SegmentFrom(sig, windows, k + 1, time)

\* Trigger::run_segmentation with the windows of the configured scan
RunSegmentation ==
    /\ seg_calls < MaxSegCalls
    /\ seg_calls' = seg_calls + 1
    /\ UNCHANGED <<params, sysvars, storevars, filtervars, acqvars>>
    /\ LET windows == RunScheme(TriggerSignalOfMap).valid
       IN  IF windows = <<>>
           THEN UNCHANGED <<signal_segments, time_out, segment_ids_out>>
           ELSE LET ti == extract_time_and_id(time_out, segment_ids_out, windows, global_time)
                IN  /\ time_out' = ti[1]
                    /\ segment_ids_out' = ti[2]
                    /\ signal_segments' =
                           [d \in Detectors |-> SegmentFrom(SignalOf(d), windows, 1, global_time)]

\* Trigger::clear
Clear ==
    /\ seg_calls < MaxSegCalls
    /\ seg_calls' = seg_calls + 1
    /\ UNCHANGED <<params, sysvars, storevars, filtervars, acqvars>>
    /\ signal_segments' = <<>>
    /\ time_out' = <<>>
    /\ segment_ids_out' = <<>>

SegNext == RunSegmentation \/ Clear

SegSpec == Init /\ [][SegNext]_vars

Spec == Init /\ [][Next]_vars

\* ============================================================ properties
\* the trigger channel and its length
TriggerSignal == SignalOf(trigger_detector_name)

n_trigger == Len(TriggerSignal)

\* a run() has returned normally (its scan and extraction were carried out)
Ran == runs >= 1 /\ status # "error"

WStart(w) == w[1]

WEnd(w) == w[2]

\* first index j >= i at which the signal is not above level (n if none)
RunEnd(sig, i, level) ==
    CHOOSE j \in i..Len(sig) :
        /\ j = Len(sig) \/ At(sig, j) <= level
        /\ \A m \in i..(j - 1) : At(sig, m) > level

RunLength(sig, i, level) == RunEnd(sig, i, level) - i

RisingEdges(sig, thr) == {i \in 1..(Len(sig) - 1) : RisingEdge(sig, i, thr)}

Accepted(cs) == SelectSeq(cs, LAMBDA c : c.verdict = "accepted")

WindowsOf(cs) == [q \in 1..Len(cs) |-> <<cs[q].start, cs[q].end>>]

\* C1: for every scheme the windows of a run satisfy 0 <= start <= end < n
\* and end[k] < start[k+1].
C1_WindowsOrderedInBounds ==
    Ran =>
        /\ \A k \in 1..Len(valid_triggers) :
               /\ 0 <= WStart(valid_triggers[k])
               /\ WStart(valid_triggers[k]) <= WEnd(valid_triggers[k])
               /\ WEnd(valid_triggers[k]) < n_trigger
        /\ \A k \in 1..(Len(valid_triggers) - 1) :
               WEnd(valid_triggers[k]) < WStart(valid_triggers[k + 1])

\* the concatenation, in window order, of buf[start_k..end_k]
RECURSIVE ConcatSlices(_, _, _)
ConcatSlices(buf, windows, k) ==
    IF k > Len(windows) THEN <<>>
    ELSE SubSeq(buf, WStart(windows[k]) + 1, WEnd(windows[k]) + 1)
         \o ConcatSlices(buf, windows, k + 1)

\* the segment ids that go with ConcatSlices: id k-1 once per sample of window k
RECURSIVE ConcatIds(_, _)
ConcatIds(windows, k) ==
    IF k > Len(windows) THEN <<>>
    ELSE [q \in 1..(WEnd(windows[k]) - WStart(windows[k]) + 1) |-> k - 1]
         \o ConcatIds(windows, k + 1)

SeqRange(s) == {s[q] : q \in 1..Len(s)}

\* C2: after a run the three outputs of every channel have the same length,
\* hold channel[start_k..end_k] paired with time[start_k..end_k] and id k in
\* window order, and the ids are non-decreasing, start at 0 and take every
\* value 0..(number of windows - 1).
C2_SegmentsAligned ==
    Ran =>
        \A d \in Detectors :
            LET t == GetTrigger(d)
            IN  /\ Len(t.signal_out) = Len(t.time_out)
                /\ Len(t.signal_out) = Len(t.segment_ids_out)
                /\ t.signal_out = ConcatSlices(t.signal, valid_triggers, 1)
                /\ t.time_out = ConcatSlices(global_time, valid_triggers, 1)
                /\ t.segment_ids_out = ConcatIds(valid_triggers, 1)
                /\ \A q \in 1..(Len(t.segment_ids_out) - 1) :
                       t.segment_ids_out[q] <= t.segment_ids_out[q + 1]
                /\ t.segment_ids_out # <<>> => t.segment_ids_out[1] = 0
                /\ SeqRange(t.segment_ids_out) = 0..(Len(valid_triggers) - 1)

\* C3: every FixedWindow window is [idx - pre_buffer - 1, idx + post_buffer]
\* for a rising-edge index idx = i - 1, rejected candidates are discarded
\* and not clamped, so every window has length pre_buffer + post_buffer + 2.
C3_FixedWindowExact ==
    (Ran /\ scheme = "fixed-window") =>
        \A k \in 1..Len(valid_triggers) :
            /\ \E i \in RisingEdges(TriggerSignal, threshold) :
                   valid_triggers[k] = <<(i - 1) - pre_buffer - 1, (i - 1) + post_buffer>>
            /\ WEnd(valid_triggers[k]) - WStart(valid_triggers[k]) + 1
                   = pre_buffer + post_buffer + 2

\* what the scan of this revision yields instead: [idx - pre_buffer + 1,
\* idx + post_buffer], pre_buffer + post_buffer samples
FixedWindowAsCoded ==
    (Ran /\ scheme = "fixed-window") =>
        \A k \in 1..Len(valid_triggers) :
            /\ \E i \in RisingEdges(TriggerSignal, threshold) :
                   valid_triggers[k] = <<(i - 1) - pre_buffer + 1, (i - 1) + post_buffer>>
            /\ WEnd(valid_triggers[k]) - WStart(valid_triggers[k]) + 1
                   = pre_buffer + post_buffer

\* C1 and C2 away from the FixedWindow offset and from repeated runs
C1_OtherSchemes == scheme # "fixed-window" => C1_WindowsOrderedInBounds

C1_FixedWithPreBuffer ==
    (scheme = "fixed-window" /\ pre_buffer + post_buffer >= 1) => C1_WindowsOrderedInBounds

C2_FirstRunNonEmptyWindows ==
    (runs = 1 /\ \A k \in 1..Len(valid_triggers) :
                     WStart(valid_triggers[k]) <= WEnd(valid_triggers[k]))
        => C2_SegmentsAligned

\* the scan history agrees with the windows returned
HistoryMatches == WindowsOf(Accepted(cands)) = valid_triggers

DebounceActive ==
    scheme = "dynamic" /\ debounce_enabled /\ min_window_duration # -1

\* the first rising edge after index r, as a set (empty if there is none)
NextEdgeAfter(sig, thr, r) ==
    {i \in RisingEdges(sig, thr) :
        i > r /\ \A m \in RisingEdges(sig, thr) : m > r => i <= m}

\* the maximal runs above the threshold, as <<first, last + 1>> pairs
RunsAbove(sig, thr) ==
    {<<a, RunEnd(sig, a, thr)>> : a \in {i \in 0..(Len(sig) - 1) :
        At(sig, i) > thr /\ (i = 0 \/ At(sig, i - 1) <= thr)}}

\* C4: with debounce enabled and min_window_duration # -1, a rising edge
\* whose run above the threshold is shorter than min_window_duration emits
\* no window and the scan resumes after that run; every emitted window
\* comes from a run of at least min_window_duration samples; and with
\* threshold 1, lower_threshold 0.5, min_window_duration 5 (units of 1/2)
\* a signal whose only run above the threshold has 3 samples gives no window.
C4_DebounceRejectsShortRuns ==
    (Ran /\ DebounceActive) =>
        /\ HistoryMatches
        /\ \A q \in 1..Len(cands) :
               LET c  == cands[q]
                   re == RunEnd(TriggerSignal, c.edge, threshold)
               IN  /\ RisingEdge(TriggerSignal, c.edge, threshold)
                   /\ (re - c.edge < min_window_duration) <=> (c.verdict = "debounce")
                   /\ c.verdict = "accepted" => re - c.edge >= min_window_duration
                   /\ c.verdict = "debounce" =>
                          /\ c.last_end_after = c.last_end
                          /\ IF q < Len(cands)
                             THEN {cands[q + 1].edge} = NextEdgeAfter(TriggerSignal, threshold, re)
                             ELSE NextEdgeAfter(TriggerSignal, threshold, re) = {}
        /\ (/\ threshold = 2 /\ lower_threshold = Num(1) /\ min_window_duration = 5
            /\ \E r \in RunsAbove(TriggerSignal, threshold) :
                   RunsAbove(TriggerSignal, threshold) = {r} /\ r[2] - r[1] = 3)
               => valid_triggers = <<>>

\* witness of C4: a run with debounce rejected one crossing as noise and
\* went on to examine a later crossing
C4_Witness ==
    /\ Ran /\ DebounceActive
    /\ \E q \in 1..(Len(cands) - 1) : cands[q].verdict = "debounce"

\* second witness: the concrete scenario was run and gave no window
C4_ScenarioReached ==
    /\ Ran /\ DebounceActive /\ threshold = 2 /\ min_window_duration = 5
    /\ cands # <<>> /\ valid_triggers = <<>>

\* the lower threshold in force after a run (NaN replaced by the threshold)
LowerInForce == EffectiveLower(threshold, lower_threshold).v

\* crossings the DoubleThreshold scan took (did not reject as noise)
Taken(cs) == SelectSeq(cs, LAMBDA c : c.verdict # "debounce")

\* C5: in DoubleThreshold a taken crossing extends through every following
\* sample while signal > lower_threshold, so between the rising edges of
\* two emitted windows there is a sample <= lower_threshold, and a dip that
\* stays above lower_threshold between two runs gives no second window.
C5_HysteresisRearm ==
    (Ran /\ scheme = "dynamic") =>
        /\ HistoryMatches
        /\ \A q \in 1..Len(cands) :
               LET c == cands[q]
                   \* first sample at or after the crossing that is <= lower
                   fall == RunEnd(TriggerSignal, c.edge, LowerInForce)
               IN  c.verdict # "debounce" =>
                       /\ c.end >= Min(fall - 1 + post_buffer, n_trigger - 1)
                       /\ LowerInForce <= threshold =>
                              c.end = Min(fall - 1 + post_buffer, n_trigger - 1)
                       /\ \A q2 \in (q + 1)..Len(cands) : cands[q2].edge > fall
        /\ \A q \in 1..Len(cands) : \A q2 \in (q + 1)..Len(cands) :
               (cands[q].verdict = "accepted" /\ cands[q2].verdict = "accepted") =>
                   \E m \in (cands[q].edge + 1)..(cands[q2].edge - 1) :
                       At(TriggerSignal, m) <= LowerInForce

\* witness of C5: a taken crossing whose run is followed by a dip that stays
\* above lower_threshold and by a second run above the threshold, all
\* inside the one window emitted
C5_Witness ==
    /\ Ran /\ scheme = "dynamic" /\ LowerInForce < threshold
    /\ Len(valid_triggers) = 1
    /\ \E q \in 1..Len(cands) :
           LET c  == cands[q]
               re == RunEnd(TriggerSignal, c.edge, threshold)
           IN  /\ c.verdict = "accepted"
               /\ re + 1 < n_trigger
               /\ At(TriggerSignal, re) > LowerInForce
               /\ At(TriggerSignal, re + 1) > threshold
               /\ c.end >= re + 1

\* last_end is threaded through the scan history: -1 before the first
\* crossing, then whatever the previous crossing left
LastEndChained ==
    \A q \in 1..Len(cands) :
        cands[q].last_end = IF q = 1 THEN -1 ELSE cands[q - 1].last_end_after

\* C6: DynamicWindow never discards a crossing for crossing a signal
\* boundary: the candidate of a rising edge i is
\* [max(0, i - pre_buffer), min(j - 1 + post_buffer, n - 1)] with j the first
\* index >= i where signal[j] <= threshold (n if none), and it is accepted
\* whenever its start is greater than the end of the last accepted window.
C6_DynamicClampsNeverDiscards ==
    (Ran /\ scheme = "dynamic-simple") =>
        /\ HistoryMatches
        /\ LastEndChained
        /\ \A q \in 1..Len(cands) :
               LET c == cands[q]
                   j == RunEnd(TriggerSignal, c.edge, threshold)
               IN  /\ RisingEdge(TriggerSignal, c.edge, threshold)
                   /\ c.start = Max(0, c.edge - pre_buffer)
                   /\ c.end = Min(j - 1 + post_buffer, n_trigger - 1)
                   /\ c.verdict \in {"accepted", "overlap"}
                   /\ (c.verdict = "accepted") <=> (c.start > c.last_end)
                   /\ c.last_end_after = IF c.verdict = "accepted" THEN c.end ELSE c.last_end
        \* the first rising edge of the signal always yields the first window
        /\ \A i \in NextEdgeAfter(TriggerSignal, threshold, 0) :
               /\ valid_triggers # <<>>
               /\ valid_triggers[1] =
                      <<Max(0, i - pre_buffer),
                        Min(RunEnd(TriggerSignal, i, threshold) - 1 + post_buffer,
                            n_trigger - 1)>>
        \* every rising edge is examined unless an earlier crossing's run
        \* covers it or the scan stopped at max_triggers
        /\ \A i \in RisingEdges(TriggerSignal, threshold) :
               \/ \E q \in 1..Len(cands) : cands[q].edge = i
               \/ max_triggers > 0 /\ Len(valid_triggers) >= max_triggers

\* witness of C6: a window was accepted although both of its unclamped
\* bounds fall outside the signal
C6_Witness ==
    /\ Ran /\ scheme = "dynamic-simple"
    /\ \E q \in 1..Len(cands) :
           LET c == cands[q]
           IN  /\ c.verdict = "accepted"
               /\ c.edge - pre_buffer < 0
               /\ RunEnd(TriggerSignal, c.edge, threshold) - 1 + post_buffer >= n_trigger
               /\ c.start = 0 /\ c.end = n_trigger - 1

\* C7: when max_triggers is not -1 a run returns at most max_triggers
\* windows; only -1 means unlimited.
C7_MaxTriggersCap ==
    (Ran /\ max_triggers # -1) => Len(valid_triggers) <= max_triggers

\* what the scans guarantee: the cap applies to positive max_triggers only
C7_PositiveCap ==
    (Ran /\ max_triggers > 0) => Len(valid_triggers) <= max_triggers

\* Scenario A has been set up
ScenarioA ==
    /\ scheme = "fixed-window" /\ threshold = 5000
    /\ pre_buffer = 10 /\ post_buffer = 10
    /\ TriggerSignal = ScenarioASignal

AboveThreshold == {i \in 0..(n_trigger - 1) : At(TriggerSignal, i) > threshold}

InWindow(i, w) == WStart(w) <= i /\ i <= WEnd(w)

\* C8 as stated: in scenario A FixedWindow accepts exactly one window and
\* that window contains every sample index at which the signal exceeds 5.
C8_OneWindowCoversPulse ==
    (ScenarioA /\ Ran) =>
        /\ Len(valid_triggers) = 1
        /\ \A i \in AboveThreshold : InWindow(i, valid_triggers[1])

\* C8 amended: in scenario A FixedWindow accepts exactly one window; the
\* signal exceeds 5 at the indices 95..105, and the window contains all of
\* them except the last one, 105 (it ends at 104).
C8_OneWindowMissesLastSample ==
    (ScenarioA /\ Ran) =>
        /\ Len(valid_triggers) = 1
        /\ AboveThreshold = 95..105
        /\ {i \in AboveThreshold : InWindow(i, valid_triggers[1])} = 95..104
        /\ WEnd(valid_triggers[1]) = 104

C8_Witness ==
    /\ ScenarioA /\ Ran
    /\ Len(valid_triggers) = 1
    /\ Len(GetTrigger("A").signal_out) > 0

\* C9: a trigger object keeps no result state between runs: once a run has
\* returned, a further run with unchanged channels and parameters leaves
\* the windows and every channel's outputs as that run left them.
C9_RepeatedRunsSameOutputs ==
    [][Ran => (valid_triggers' = valid_triggers /\ triggers' = triggers)]_vars

OutputsEmpty ==
    \A d \in Detectors :
        /\ GetTrigger(d).signal_out = <<>>
        /\ GetTrigger(d).time_out = <<>>
        /\ GetTrigger(d).segment_ids_out = <<>>

C9_TriggerOutputsSameLength ==
    \A d \in DOMAIN signal_segments :
        /\ Len(signal_segments[d]) = Len(time_out)
        /\ Len(signal_segments[d]) = Len(segment_ids_out)

\* and what holds of it when clear() precedes every run_segmentation
C9_TriggerFirstCall == seg_calls <= 1 => C9_TriggerOutputsSameLength

\* ================================================================ filters
\* Free filter functions (cpp/filter.cpp and its later revision
\* cpp/deprecated/cpp_deprecated/filter/filter.cpp).  Samples are integers;
\* frequencies are integers in one unit, so "cutoff >= sampling_rate / 2" is
\* 2 * cutoff >= sampling_rate.
MaxFilterCalls == 1

MapSamples(sig, F(_)) == [q \in 1..Len(sig) |-> F(sig[q])]

\* variant of the earlier revision (cpp/filter.cpp): the window stops before i
BaselineWindowStop_Exclusive(i) == i

\* one past the last index of the window of sample i: std::min_element runs
\* over [start, i + 1), and the expanding minimum takes orig[i] in at step i
BaselineWindowStop(i) == i + 1

\* start = (i < static_cast<size_t>(window_size)) ? 0 : i - window_size; a
\* negative window_size converts to a size_t above every index
BaselineWindowStart(i, window_size) ==
    IF window_size < 0 \/ i < window_size THEN 0 ELSE i - window_size

\* *std::min_element(orig.begin() + first, orig.begin() + last): the first
\* smallest element of [first, last); an empty range yields the end iterator
RECURSIVE min_element(_, _, _)
min_element(orig, first, last) ==
    IF first >= last THEN At(orig, last)
    ELSE IF first + 1 = last THEN At(orig, first)
    ELSE Min(At(orig, first), min_element(orig, first + 1, last))

\* global_min after the loop of the window_size == -1 branch has run up to i
RECURSIVE global_min(_, _)
global_min(orig, i) ==
    IF i = 0 THEN At(orig, 0)
    ELSE Min(global_min(orig, i - 1), At(orig, BaselineWindowStop(i) - 1))

\* compute_baseline_restoration on a vector of at least one sample
compute_baseline_restoration(sig, window_size) ==
    IF window_size = -1
    THEN [q \in 1..Len(sig) |->
             IF q = 1 THEN sig[1] ELSE sig[q] - global_min(sig, q - 1)]
    ELSE [q \in 1..Len(sig) |->
             IF q = 1 THEN 0
             ELSE sig[q] - min_element(sig, BaselineWindowStart(q - 1, window_size),
                                       BaselineWindowStop(q - 1))]

\* variant that lets a cutoff at or above Nyquist through
CutoffRejected_Never(sampling_rate, cutoff_freq) == FALSE

\* if (cutoff_freq >= (sampling_rate / 2.0)) throw std::invalid_argument
CutoffRejected(sampling_rate, cutoff_freq) == 2 * cutoff_freq >= sampling_rate

\* alpha = T / (RC + T) with RC = 1 / (2 pi cutoff): 2 pi cutoff over
\* (sampling_rate + 2 pi cutoff), as a fraction with pi taken as 3
AlphaNum(sampling_rate, cutoff_freq) == 6 * cutoff_freq

AlphaDen(sampling_rate, cutoff_freq) == sampling_rate + 6 * cutoff_freq

\* one pass y = alpha * x[i] + (1 - alpha) * y_prev, y_prev starting at x[0]
RECURSIVE Smooth(_, _, _, _, _)
Smooth(sig, q, y_prev, num, den) ==
    IF q > Len(sig) THEN <<>>
    ELSE LET y == (num * sig[q] + (den - num) * y_prev) \div den
         IN  <<y>> \o Smooth(sig, q + 1, y, num, den)

FilterResult(sig, outcome) == [signal |-> sig, outcome |-> outcome]

\* apply_first_order_butterworth_filter
apply_first_order_butterworth_filter(sig, sampling_rate, cutoff_freq, gain) ==
    IF CutoffRejected(sampling_rate, cutoff_freq) THEN FilterResult(sig, "InvalidCutoff")
    ELSE IF Len(sig) = 0 THEN FilterResult(sig, "ok")
    ELSE FilterResult(
             MapSamples(Smooth(sig, 1, sig[1], AlphaNum(sampling_rate, cutoff_freq),
                               AlphaDen(sampling_rate, cutoff_freq)),
                        LAMBDA y : y * gain),
             "ok")

\* the cascade of apply_butterworth_lowpass_filter on its working copy
RECURSIVE ButterworthStages(_, _, _, _, _)
ButterworthStages(sig, stage, num_stages, sampling_rate, cutoff_freq) ==
    IF stage >= num_stages THEN FilterResult(sig, "ok")
    ELSE LET r == apply_first_order_butterworth_filter(sig, sampling_rate, cutoff_freq, 1)
         IN  IF r.outcome # "ok" THEN r
             ELSE ButterworthStages(r.signal, stage + 1, num_stages, sampling_rate, cutoff_freq)

\* apply_butterworth_lowpass_filter: the array is written back only when the
\* cascade and the gain loop have completed
apply_butterworth_lowpass_filter(sig, sampling_rate, cutoff_freq, num_stages, gain) ==
    LET r == ButterworthStages(sig, 0, num_stages, sampling_rate, cutoff_freq)
    IN  IF r.outcome # "ok" THEN FilterResult(sig, r.outcome)
        ELSE FilterResult(MapSamples(r.signal, LAMBDA y : y * gain), "ok")

\* the cascade of apply_bessel_lowpass_filter_ on temp
RECURSIVE BesselStages(_, _, _, _, _)
BesselStages(temp, stage, order, num, den) ==
    IF stage >= order THEN temp
    ELSE BesselStages(Smooth(temp, 1, temp[1], num, den), stage + 1, order, num, den)

\* apply_bessel_lowpass_filter_ (and its array wrapper apply_bessel_lowpass_filter)
apply_bessel_lowpass_filter(sig, sampling_rate, cutoff_freq, order, gain) ==
    IF CutoffRejected(sampling_rate, cutoff_freq) THEN FilterResult(sig, "InvalidCutoff")
    ELSE IF Len(sig) = 0 THEN FilterResult(sig, "ok")
    ELSE FilterResult(
             MapSamples(BesselStages(sig, 0, order, AlphaNum(sampling_rate, cutoff_freq),
                                     AlphaDen(sampling_rate, cutoff_freq)),
                        LAMBDA y : y * gain),
             "ok")

\* --------------------------------------------- FFT plans and working buffers
Acquire(r) == <<"acquire", r>>

Release(r) == <<"release", r>>

\* the resources held once the events have happened in order
RECURSIVE HeldAfter(_, _)
HeldAfter(h, events) ==
    IF events = <<>> THEN h
    ELSE HeldAfter(IF Head(events)[1] = "acquire" THEN h \cup {Head(events)[2]}
                   ELSE h \ {Head(events)[2]},
                   Tail(events))

Acquired(events) == {events[q][2] : q \in {p \in 1..Len(events) : events[p][1] = "acquire"}}

RECURSIVE Sum(_, _)
Sum(s, q) == IF q > Len(s) THEN 0 ELSE s[q] + Sum(s, q + 1)

\* variant whose bin 0 is attenuated like the bins above it
MaskDivisor_Flat(k, order) == 2 ^ order

\* 1 / H(f)^order at bin k, with H(f) = 1 / sqrt(1 + (f / fc)^2) and
\* f = k * df: 1 at k = 0, and 2^order standing for every bin above DC
MaskDivisor(k, order) == IF k = 0 THEN 1 ELSE 2 ^ order

\* what the mask leaves of the spectrum, in the sample domain: the DC bin
\* (the mean) passes with H(0) = 1, the other bins are attenuated; one common
\* factor 1 / 2^order stands for H(f)^order of the bins above DC
SpectralMask(data, order) ==
    LET mean == Sum(data, 1) \div Len(data)
    IN  [q \in 1..Len(data) |-> (mean \div MaskDivisor(0, order))
                                + ((data[q] - mean) \div MaskDivisor(1, order))]

\* variant that returns without freeing the FFTW arrays
fft_filter_cleanup_PlansOnly == <<Release("forwardPlan"), Release("backwardPlan")>>

\* "Cleanup FFTW resources": the two plans are destroyed and in, out are freed
fft_filter_cleanup ==
    <<Release("forwardPlan"), Release("backwardPlan"), Release("in"), Release("out")>>

FftResult(sig, outcome, events) == [signal |-> sig, outcome |-> outcome, events |-> events]

\* fft_filter on an array of ndim dimensions holding at least one sample
fft_filter(ndim, data, order) ==
    IF ndim # 1 THEN FftResult(data, "NotOneDimensional", <<>>)
    ELSE FftResult(SpectralMask(data, order), "ok",
                   <<Acquire("in"), Acquire("out"), Acquire("forwardPlan"),
                     Acquire("backwardPlan")>> \o fft_filter_cleanup)

\* apply_butterworth_lowpass_filter_py
apply_butterworth_lowpass_filter_py(ndim, data, sampling_rate, cutoff_freq, num_stages, gain) ==
    IF CutoffRejected(sampling_rate, cutoff_freq) THEN FftResult(data, "InvalidCutoff", <<>>)
    ELSE LET r == fft_filter(ndim, data, num_stages)
         IN  IF r.outcome # "ok" THEN r
             ELSE FftResult(MapSamples(r.signal, LAMBDA y : y * gain), "ok", r.events)

\* apply_bessel_lowpass_filter_py, through apply_bessel_lowpass_filter_fft:
\* the data is copied into a vector, so fft_filter always sees one dimension
apply_bessel_lowpass_filter_py(data, sampling_rate, cutoff_freq, order, gain) ==
    IF CutoffRejected(sampling_rate, cutoff_freq) THEN FftResult(data, "InvalidCutoff", <<>>)
    ELSE IF Len(data) = 0 THEN FftResult(data, "ok", <<>>)
    ELSE LET r == fft_filter(1, data, order)
         IN  FftResult(MapSamples(r.signal, LAMBDA y : y * gain), "ok", r.events)

\* utils::apply_bessel_lowpass_filter_to_signal, the Bessel-polynomial mask
\* called by SignalGenerator::apply_bessel_lowpass_filter_to_signal: orders
\* outside 1..4 are refused once the forward transform has been set up, and
\* the buffers are freed before the error is raised
bessel_mask_filter(data, order, gain) ==
    LET setup == <<Acquire("in"), Acquire("out"), Acquire("forwardPlan")>>
    IN  IF order \notin 1..4
        THEN FftResult(data, "UnsupportedFilterOrder",
                       setup \o <<Release("forwardPlan"), Release("in"), Release("out")>>)
        ELSE FftResult(MapSamples(SpectralMask(data, order), LAMBDA y : y * gain), "ok",
                       setup \o <<Acquire("backwardPlan")>> \o fft_filter_cleanup)

\* kernel[i] = exp(-(t * t) / (2 sigma^2)) at t = (i - n / 2) dt, for the
\* sigma at which one half step of dt halves the weight: 16 * 2^-(d^2) at
\* d = |2 i - n| half steps, nothing beyond two half steps
GaussianKernel(n) ==
    [q \in 1..n |-> LET d == IF 2 * (q - 1) >= n THEN 2 * (q - 1) - n ELSE n - 2 * (q - 1)
                    IN  IF d = 0 THEN 16 ELSE IF d = 1 THEN 8 ELSE IF d = 2 THEN 1 ELSE 0]

\* product of the two transforms, transformed back and divided by n: the
\* circular convolution with the normalised kernel
CircularConvolve(data, kernel) ==
    LET n == Len(data)
        total == Sum(kernel, 1)
    IN  [q \in 1..n |->
            Sum([j \in 1..n |-> data[j] * kernel[((q - j) % n) + 1]], 1) \div total]

\* SignalGenerator::convolve_signal_with_gaussian on a channel holding data;
\* exists and time_ready are what the two assertions find.  kernel,
\* fft_signal and fft_kernel are vectors of the call's scope
convolve_signal_with_gaussian(exists, time_ready, data) ==
    IF ~exists THEN FftResult(data, "UnknownChannel", <<>>)
    ELSE IF ~time_ready THEN FftResult(data, "MissingTimeAxis", <<>>)
    ELSE IF Len(data) < 2 THEN FftResult(data, "TooShort", <<>>)
    ELSE FftResult(CircularConvolve(data, GaussianKernel(Len(data))), "ok",
                   <<Acquire("kernel"), Acquire("fft_signal"), Acquire("fft_kernel"),
                     Acquire("plan_signal"), Acquire("plan_kernel"),
                     Release("plan_signal"), Release("plan_kernel"),
                     Acquire("plan_inverse"), Release("plan_inverse"),
                     Release("fft_kernel"), Release("fft_signal"), Release("kernel")>>)

\* ----------------------------------------------------- filter calls as steps
FilterLevels == {-1, 0, 2}

FilterSignals == SeqsUpTo(FilterLevels, MaxLen)

WindowSizes == {-1, 1, 2}

\* one sampling rate; cutoffs below, at and above its Nyquist frequency
SamplingRates == {4}

Cutoffs == {1, 2, 3}

\* no stage, one stage, and an order no Bessel polynomial is tabulated for
Orders == {0, 1, 5}

Gains == {1, 2}

\* what a call on an empty vector can do where the code reads or writes
\* element 0 of it, or executes a plan FFTW did not create
UndefinedOutcomes == {"ok", "crash"}

\* nothing of the triggering system has been constructed
TriggerIdle ==
    /\ scheme = "fixed-window"
    /\ threshold = 0
    /\ lower_threshold = NaN
    /\ pre_buffer = 0
    /\ post_buffer = 0
    /\ max_triggers = -1
    /\ debounce_enabled = TRUE
    /\ min_window_duration = -1
    /\ triggers = <<>>
    /\ global_time = <<>>
    /\ valid_triggers = <<>>
    /\ cands = <<>>
    /\ scan = NoScan
    /\ runs = 0
    /\ status = "none"
    /\ signal_segments = <<>>
    /\ time_out = <<>>
    /\ segment_ids_out = <<>>
    /\ seg_calls = 0

FilterInit ==
    /\ signal \in FilterSignals
    /\ orig_signal = signal
    /\ filter_call = [op |-> "none", outcome |-> "none", window_size |-> 0,
                      sampling_rate |-> 0, cutoff_freq |-> 0, order |-> 0, gain |-> 0,
                      acquired |-> {}]
    /\ held = {}
    /\ filter_calls = 0
    /\ TriggerIdle /\ StoreIdle /\ AcqIdle

\* bookkeeping common to every filter call
FilterCalled(op, outcome, ws, fs, fc, order, gain, events) ==
    /\ filter_calls' = filter_calls + 1
    /\ orig_signal' = signal
    /\ filter_call' = [op |-> op, outcome |-> outcome, window_size |-> ws,
                       sampling_rate |-> fs, cutoff_freq |-> fc, order |-> order,
                       gain |-> gain, acquired |-> Acquired(events)]
    /\ held' = HeldAfter(held, events)
    /\ UNCHANGED <<params, sysvars, segvars, storevars, acqvars>>

\* apply_baseline_restoration(signal_array, window_size)
BaselineRestoration ==
    /\ filter_calls < MaxFilterCalls
    /\ \E ws \in WindowSizes :
         IF Len(signal) = 0
         THEN \E out \in UndefinedOutcomes :
                  /\ signal' = signal
                  /\ FilterCalled("baseline_restoration", out, ws, 0, 0, 0, 0, <<>>)
         ELSE /\ signal' = compute_baseline_restoration(signal, ws)
              /\ FilterCalled("baseline_restoration", "ok", ws, 0, 0, 0, 0, <<>>)

\* apply_butterworth_lowpass_filter of cpp/filter.cpp
ButterworthLowpass ==
    /\ filter_calls < MaxFilterCalls
    /\ \E fs \in SamplingRates, fc \in Cutoffs, order \in Orders, gain \in Gains :
         LET r == apply_butterworth_lowpass_filter(signal, fs, fc, order, gain)
         IN  /\ signal' = r.signal
             /\ FilterCalled("butterworth", r.outcome, 0, fs, fc, order, gain, <<>>)

\* apply_bessel_lowpass_filter of cpp/filter.cpp
BesselLowpass ==
    /\ filter_calls < MaxFilterCalls
    /\ \E fs \in SamplingRates, fc \in Cutoffs, order \in Orders, gain \in Gains :
         LET r == apply_bessel_lowpass_filter(signal, fs, fc, order, gain)
         IN  /\ signal' = r.signal
             /\ FilterCalled("bessel", r.outcome, 0, fs, fc, order, gain, <<>>)

\* apply_butterworth_lowpass_filter_py of the later revision, on an array of
\* one or two dimensions
ButterworthLowpassFft ==
    /\ filter_calls < MaxFilterCalls
    /\ \E ndim \in {1, 2}, fs \in SamplingRates, fc \in Cutoffs, order \in Orders, gain \in Gains :
         IF Len(signal) = 0 /\ ndim = 1 /\ ~CutoffRejected(fs, fc)
         THEN \E out \in UndefinedOutcomes :
                  /\ signal' = signal
                  /\ FilterCalled("butterworth_fft", out, 0, fs, fc, order, gain,
                                  IF out = "crash" THEN <<>>
                                  ELSE <<Acquire("in"), Acquire("out"), Acquire("forwardPlan"),
                                         Acquire("backwardPlan")>> \o fft_filter_cleanup)
         ELSE LET r == apply_butterworth_lowpass_filter_py(ndim, signal, fs, fc, order, gain)
              IN  /\ signal' = r.signal
                  /\ FilterCalled("butterworth_fft", r.outcome, 0, fs, fc, order, gain, r.events)

\* apply_bessel_lowpass_filter_py of the later revision
BesselLowpassFft ==
    /\ filter_calls < MaxFilterCalls
    /\ \E fs \in SamplingRates, fc \in Cutoffs, order \in Orders, gain \in Gains :
         LET r == apply_bessel_lowpass_filter_py(signal, fs, fc, order, gain)
         IN  /\ signal' = r.signal
             /\ FilterCalled("bessel_fft", r.outcome, 0, fs, fc, order, gain, r.events)

\* the Bessel-polynomial mask on a vector of at least one sample
BesselMask ==
    /\ filter_calls < MaxFilterCalls
    /\ Len(signal) >= 1
    /\ \E order \in Orders \cup {4}, gain \in Gains :
         LET r == bessel_mask_filter(signal, order, gain)
         IN  /\ signal' = r.signal
             /\ FilterCalled("bessel_mask", r.outcome, 0, 0, 0, order, gain, r.events)

\* SignalGenerator::convolve_signal_with_gaussian on the channel holding signal
ConvolveWithGaussian ==
    /\ filter_calls < MaxFilterCalls
    /\ \E exists \in BOOLEAN, time_ready \in BOOLEAN :
         LET r == convolve_signal_with_gaussian(exists, time_ready, signal)
         IN  /\ signal' = r.signal
             /\ FilterCalled("convolve", r.outcome, 0, 0, 0, 0, 0, r.events)

FilterNext ==
    \/ BaselineRestoration
    \/ ButterworthLowpass
    \/ BesselLowpass
    \/ ButterworthLowpassFft
    \/ BesselLowpassFft
    \/ BesselMask
    \/ ConvolveWithGaussian

FilterSpec == FilterInit /\ [][FilterNext]_vars

\* ------------------------------------------------- properties of the filters
BaselineRestored ==
    /\ filter_call.op = "baseline_restoration"
    /\ filter_call.outcome = "ok"
    /\ Len(orig_signal) >= 1

\* C12: baseline restoration, for every input signal and every window_size
\* >= 1 or -1, leaves the first sample exactly 0 and every other sample >= 0
C12_BaselineFirstZeroRestNonNegative ==
    BaselineRestored =>
        /\ At(signal, 0) = 0
        /\ \A i \in 1..(Len(signal) - 1) : At(signal, i) >= 0

\* what does hold: the first sample is 0 for every finite window, it keeps
\* its value for the expanding window, and the other samples are >= 0
C12_AsCoded ==
    BaselineRestored =>
        /\ At(signal, 0) = IF filter_call.window_size = -1 THEN At(orig_signal, 0) ELSE 0
        /\ \A i \in 1..(Len(signal) - 1) : At(signal, i) >= 0

\* the smallest of orig[lo..hi], both ends included
MinOf(orig, lo, hi) ==
    CHOOSE m \in {At(orig, q) : q \in lo..hi} : \A q \in lo..hi : m <= At(orig, q)

WindowLo(i, window_size) == IF window_size = -1 THEN 0 ELSE Max(0, i - window_size)

TimeDomainLowpass == filter_call.op \in {"butterworth", "bessel"}

LowpassCalled == filter_call.op \in {"butterworth", "bessel", "butterworth_fft", "bessel_fft"}

AtOrAboveNyquist == 2 * filter_call.cutoff_freq >= filter_call.sampling_rate

\* C20: a Butterworth or Bessel low-pass call with cutoff_frequency >=
\* sampling_rate / 2 fails with InvalidCutoff for every order and every gain,
\* and leaves the signal unmodified
C20_CutoffAtNyquistRejected ==
    (LowpassCalled /\ AtOrAboveNyquist) =>
        /\ filter_call.outcome = "InvalidCutoff"
        /\ signal = orig_signal

\* what does hold: the call is refused, with the signal untouched, unless it
\* is the Butterworth cascade of cpp/filter.cpp asked for no stage at all
C20_RefusedWhenAStageRuns ==
    (LowpassCalled /\ AtOrAboveNyquist
        /\ ~(filter_call.op = "butterworth" /\ filter_call.order <= 0)) =>
        /\ filter_call.outcome = "InvalidCutoff"
        /\ signal = orig_signal

\* the cascade of no stage at a cutoff above Nyquist: no error, gain applied
C20_NoStageReached ==
    /\ filter_call.op = "butterworth"
    /\ filter_call.order = 0
    /\ AtOrAboveNyquist
    /\ filter_call.outcome = "ok"
    /\ signal # orig_signal

C19_CompletedReached ==
    /\ filter_call.op \in {"butterworth_fft", "convolve"}
    /\ filter_call.outcome = "ok"
    /\ Cardinality(filter_call.acquired) >= 4
    /\ held = {}

\* ======================================================== SignalGenerator
\* The channel store (cpp/signal_generator/signal_generator.cpp).  Samples
\* are integers in units of 1/2, so that rounding has something to do; the
\* factors of multiply and the gains are whole numbers.
MaxElements == 2

MaxCalls == 2

TIME_KEY == "Time"

ChannelNames == {"A", "B"}

\* the keys in the iteration order of std::map<std::string, ...>
KeyOrder == <<"A", "B", TIME_KEY>>

has_signal(dict, name) == name \in DOMAIN dict

\* the keys a loop over data_dict visits without `continue`
SignalKeys(dict) == SelectSeq(KeyOrder, LAMBDA k : has_signal(dict, k) /\ k # TIME_KEY)

\* data_dict with name bound to data (emplace of a new key, or assignment)
With(dict, name, data) ==
    [k \in (DOMAIN dict) \cup {name} |-> IF k = name THEN data ELSE dict[k]]

\* data_dict[signal_name]: operator[] inserts an empty vector for a new key
Subscript(dict, name) == IF has_signal(dict, name) THEN dict ELSE With(dict, name, <<>>)

Result(dict, gen, outcome) == [d |-> dict, g |-> gen, outcome |-> outcome]

\* variant in which the existence check lets every name through
assert_signal_exists_Skipped(dict, name) == TRUE

\* assert_signal_exists: TRUE when it returns, FALSE when it throws
assert_signal_exists(dict, name) == has_signal(dict, name)

\* variant that only checks that a time axis is there
assert_time_signal_ready_AnySize(dict, n) == has_signal(dict, TIME_KEY)

\* assert_time_signal_ready: TRUE when it returns, FALSE when it throws
assert_time_signal_ready(dict, n) ==
    has_signal(dict, TIME_KEY) /\ Len(dict[TIME_KEY]) = n

\* variant that stores data of any length
SizeMatches_Unchecked(data, n) == TRUE

\* signal_data.size() != n_elements is what add_signal refuses
SizeMatches(data, n) == Len(data) = n

add_signal(dict, gen, n, name, data) ==
    IF has_signal(dict, name) THEN Result(dict, gen, "DuplicateChannel")
    ELSE IF ~SizeMatches(data, n) THEN Result(dict, gen, "LengthMismatch")
    ELSE Result(With(dict, name, data), gen, "ok")

create_zero_signal(dict, gen, n, name) ==
    IF has_signal(dict, name) THEN Result(dict, gen, "DuplicateChannel")
    ELSE Result(With(dict, name, [q \in 1..n |-> 0]), gen, "ok")

get_signal(dict, gen, name) ==
    IF ~has_signal(dict, name) THEN Result(dict, gen, "UnknownChannel")
    ELSE Result(dict, gen, "ok")

\* the add_time binding: data_dict["Time"] = time_series, of any length
add_time(dict, gen, data) == Result(With(dict, TIME_KEY, data), gen, "ok")

\* a per-sample operation on one channel found with data_dict.find
OnFound(dict, gen, name, F(_)) ==
    IF ~has_signal(dict, name) THEN Result(dict, gen, "UnknownChannel")
    ELSE Result(With(dict, name, MapSamples(dict[name], F)), gen, "ok")

\* the same operation on every entry but the time axis
OnAll(dict, gen, F(_)) ==
    Result([k \in DOMAIN dict |-> IF k = TIME_KEY THEN dict[k] ELSE MapSamples(dict[k], F)],
           gen, "ok")

add_constant_to_signal(dict, gen, name, constant) ==
    OnFound(dict, gen, name, LAMBDA v : v + constant)

add_constant(dict, gen, constant) == OnAll(dict, gen, LAMBDA v : v + constant)

multiply_signal(dict, gen, name, factor) == OnFound(dict, gen, name, LAMBDA v : v * factor)

multiply(dict, gen, factor) == OnAll(dict, gen, LAMBDA v : v * factor)

\* std::round on a value counted in halves: halves round away from zero
std_round(v) == IF v >= 0 THEN 2 * ((v + 1) \div 2) ELSE -(2 * ((1 - v) \div 2))

round_signal(dict, gen, name) == OnFound(dict, gen, name, std_round)

round(dict, gen) == OnAll(dict, gen, std_round)

\* ------------------------------------------------------------ the generator
\* random_generator is [seed, pos]: the seed it was constructed with and the
\* number of draws taken from it.  A draw is a function of both.
Draw(gen) == (gen.seed + gen.pos) % 3

Advance(gen) == [gen EXCEPT !.pos = @ + 1]

\* variant of the free function add_gaussian_noise of cpp/utils.cpp: a new
\* engine per call, seeded from std::random_device
EngineForCall_Reseeded(gen, entropy) == [seed |-> entropy, pos |-> 0]

\* the engine a noise call draws from: the member random_generator, in the
\* state the earlier calls left it in; entropy is what std::random_device
\* would yield at this moment
EngineForCall(gen, entropy) == gen

VecResult(sig, gen, outcome) == [signal |-> sig, g |-> gen, outcome |-> outcome]

\* utils::add_gaussian_noise_to_signal: signal[i] += Normal(mean, sd), one
\* draw of the distribution per sample, in index order
RECURSIVE GaussianInto(_, _, _, _, _)
GaussianInto(sig, q, gen, mean, sd) ==
    IF q > Len(sig) THEN VecResult(sig, gen, "ok")
    ELSE GaussianInto([sig EXCEPT ![q] = @ + mean + sd * (Draw(gen) - 1)],
                      q + 1, Advance(gen), mean, sd)

\* constexpr double threshold = 1e6, in halves
poisson_threshold == 2000000

\* dist(random_generator) for the sample value v >= 0: a Poisson count of
\* mean v below the threshold, a rounded normal draw around v above it
PoissonDraw(v, gen) ==
    IF v < poisson_threshold
    THEN IF v = 0 THEN 0 ELSE 2 * Max(0, (v \div 2) + Draw(gen) - 1)
    ELSE std_round(v + 2 * (Draw(gen) - 1))

\* variant that validates the whole vector before it draws anything
NegativeAhead_Anywhere(sig, q) == \E p \in q..Len(sig) : sig[p] < 0

\* the loop of _apply_mixed_poisson_noise_to_signal tests signal[i] < 0.0 at
\* the sample it is about to replace
NegativeAhead(sig, q) == sig[q] < 0

\* _apply_mixed_poisson_noise_to_signal from sample q on
RECURSIVE PoissonInto(_, _, _)
PoissonInto(sig, q, gen) ==
    IF q > Len(sig) THEN VecResult(sig, gen, "ok")
    ELSE IF NegativeAhead(sig, q) THEN VecResult(sig, gen, "NegativeValueForPoissonNoise")
    ELSE PoissonInto([sig EXCEPT ![q] = PoissonDraw(sig[q], gen)], q + 1, Advance(gen))

\* gauss_val = coupling_power * exp(-(dt * dt) / (2 sigma^2)), with sigma
\* counted in the width at which one unit of time halves the value
gauss_val(sigma, center, coupling_power, t) ==
    coupling_power \div (2 ^ (((t - center) * (t - center)) \div (sigma * sigma)))

\* sum over the pulses k.. of their values at time t
RECURSIVE PulseSum(_, _, _)
PulseSum(pulses, k, t) ==
    IF k > Len(pulses.centers) THEN 0
    ELSE gauss_val(pulses.sigmas[k], pulses.centers[k], pulses.coupling_power[k], t)
         + PulseSum(pulses, k + 1, t)

\* utils::generate_pulses_signal: background plus every pulse at every sample
generate_pulses_vector(sig, pulses, time, background_power) ==
    [q \in 1..Len(sig) |-> background_power + PulseSum(pulses, 1, time[q])]

SameSize(pulses) ==
    /\ Len(pulses.sigmas) = Len(pulses.centers)
    /\ Len(pulses.centers) = Len(pulses.coupling_power)

\* the utils:: function a store call hands one vector to
VectorOp(call, sig, gen) ==
    CASE call.op = "baseline" ->
             VecResult(compute_baseline_restoration(sig, call.window_size), gen, "ok")
      [] call.op = "butterworth" ->
             IF Len(sig) = 0 THEN VecResult(sig, gen, "EmptySignal")
             ELSE VecResult(MapSamples(SpectralMask(sig, call.order), LAMBDA y : y * call.gain),
                            gen, "ok")
      [] call.op = "bessel" ->
             IF Len(sig) = 0 THEN VecResult(sig, gen, "EmptySignal")
             ELSE LET r == bessel_mask_filter(sig, call.order, call.gain)
                  IN  VecResult(r.signal, gen, r.outcome)
      [] call.op = "pulses" ->
             VecResult(generate_pulses_vector(sig, call.pulses, call.time, call.background_power),
                       gen, "ok")
      [] call.op = "gaussian" ->
             IF Len(sig) = 0 THEN VecResult(sig, gen, "EmptySignal")
             ELSE GaussianInto(sig, 1, gen, call.mean, call.standard_deviation)
      [] call.op = "poisson" ->
             IF Len(sig) = 0 THEN VecResult(sig, gen, "EmptySignal")
             ELSE PoissonInto(sig, 1, gen)

\* for (auto &entry : data_dict): the entries but the time axis, in key
\* order; an exception leaves the loop with what has been written so far
RECURSIVE OverKeys(_, _, _, _)
OverKeys(keys, dict, gen, call) ==
    IF keys = <<>> THEN Result(dict, gen, "ok")
    ELSE LET r == VectorOp(call, dict[Head(keys)], gen)
             d == With(dict, Head(keys), r.signal)
         IN  IF r.outcome # "ok" THEN Result(d, r.g, r.outcome)
             ELSE OverKeys(Tail(keys), d, r.g, call)

ForAllSignals(dict, gen, call) == OverKeys(SignalKeys(dict), dict, gen, call)

\* assert_signal_exists(signal_name), then the utils:: function on
\* data_dict[signal_name]
ForSignal(dict, gen, name, call) ==
    IF ~assert_signal_exists(dict, name) THEN Result(dict, gen, "UnknownChannel")
    ELSE LET d == Subscript(dict, name)
             r == VectorOp(call, d[name], gen)
         IN  Result(With(d, name, r.signal), r.g, r.outcome)

\* ------------------------------------------------------- the store's methods
apply_baseline_restoration_all(dict, gen, window_size) ==
    ForAllSignals(dict, gen, [op |-> "baseline", window_size |-> window_size])

apply_butterworth_lowpass_filter_all(dict, gen, order, gain) ==
    ForAllSignals(dict, gen, [op |-> "butterworth", order |-> order, gain |-> gain])

apply_butterworth_lowpass_filter_to_signal(dict, gen, name, order, gain) ==
    ForSignal(dict, gen, name, [op |-> "butterworth", order |-> order, gain |-> gain])

apply_bessel_lowpass_filter_all(dict, gen, order, gain) ==
    ForAllSignals(dict, gen, [op |-> "bessel", order |-> order, gain |-> gain])

apply_bessel_lowpass_filter_to_signal(dict, gen, name, order, gain) ==
    ForSignal(dict, gen, name, [op |-> "bessel", order |-> order, gain |-> gain])

PulseCall(dict, pulses, background_power) ==
    [op |-> "pulses", pulses |-> pulses, time |-> dict[TIME_KEY],
     background_power |-> background_power]

generate_pulses(dict, gen, n, pulses, background_power) ==
    IF ~assert_time_signal_ready(dict, n) THEN Result(dict, gen, "MissingTimeAxis")
    ELSE IF ~SameSize(pulses) THEN Result(dict, gen, "LengthMismatch")
    ELSE ForAllSignals(dict, gen, PulseCall(dict, pulses, background_power))

generate_pulses_signal(dict, gen, n, name, pulses, background_power) ==
    IF ~assert_signal_exists(dict, name) THEN Result(dict, gen, "UnknownChannel")
    ELSE IF ~assert_time_signal_ready(dict, n) THEN Result(dict, gen, "MissingTimeAxis")
    ELSE IF ~SameSize(pulses) THEN Result(dict, gen, "LengthMismatch")
    ELSE ForSignal(dict, gen, name, PulseCall(dict, pulses, background_power))

add_gaussian_noise(dict, gen, entropy, mean, sd) ==
    ForAllSignals(dict, EngineForCall(gen, entropy),
                  [op |-> "gaussian", mean |-> mean, standard_deviation |-> sd])

add_gaussian_noise_to_signal(dict, gen, entropy, name, mean, sd) ==
    ForSignal(dict, EngineForCall(gen, entropy), name,
              [op |-> "gaussian", mean |-> mean, standard_deviation |-> sd])

apply_poisson_noise(dict, gen, entropy) ==
    ForAllSignals(dict, EngineForCall(gen, entropy), [op |-> "poisson"])

apply_poisson_noise_to_signal(dict, gen, entropy, name) ==
    ForSignal(dict, EngineForCall(gen, entropy), name, [op |-> "poisson"])

\* ------------------------------------------------------ the store's states
SampleValues == {-1, 3}

Seeds == {1, 2}

\* what std::random_device can yield when it is asked
Entropy == {7, 8}

Constant(n, x) == [q \in 1..n |-> x]

\* all vectors of n samples
Datas(n) == {d \in SeqsUpTo(SampleValues, n) : Len(d) = n}

\* n samples of 3 with a last sample of -1
NegLast(n) == [q \in 1..n |-> IF q = n THEN -1 ELSE 3]

\* the channels a store of n elements can have been given with add_signal,
\* and the time axes with add_time
InitialDicts(n) ==
    {[k \in ks |-> IF k = "A" THEN a ELSE IF k = "B" THEN NegLast(n) ELSE t] :
        ks \in SUBSET {"A", "B", TIME_KEY}, a \in Datas(n),
        t \in {TimeAxis(n), TimeAxis(n + 1)}}

\* two stores constructed with the same n_elements and the same seed, and
\* populated alike
StoreInit ==
    /\ n_elements \in 0..MaxElements
    /\ data_dict \in InitialDicts(n_elements)
    /\ \E seed \in Seeds : random_generator = [seed |-> seed, pos |-> 0]
    /\ twin_dict = data_dict
    /\ twin_generator = random_generator
    /\ prev_dict = data_dict
    /\ last_call = [op |-> "none", name |-> "", outcome |-> "none", same_size |-> TRUE,
                    pos_before |-> 0]
    /\ calls = 0
    /\ circuit = NoCircuit
    /\ TriggerIdle /\ FilterIdle /\ AcqIdle

\* one call made on both stores: r is how it ends on the first, rt on the twin
StoreCalled(op, name, same_size, r, rt) ==
    /\ calls < MaxCalls
    /\ last_call.outcome # "crash"
    /\ calls' = calls + 1
    /\ prev_dict' = data_dict
    /\ data_dict' = r.d
    /\ random_generator' = r.g
    /\ twin_dict' = rt.d
    /\ twin_generator' = rt.g
    /\ last_call' = [op |-> op, name |-> name, outcome |-> r.outcome,
                     same_size |-> same_size, pos_before |-> random_generator.pos]
    /\ UNCHANGED <<n_elements, circuit, params, sysvars, segvars, filtervars, acqvars>>

\* ------------------------------------------------------- the store's actions
CreateZeroSignal ==
    \E name \in ChannelNames :
        StoreCalled("create_zero_signal", name, TRUE,
                    create_zero_signal(data_dict, random_generator, n_elements, name),
                    create_zero_signal(twin_dict, twin_generator, n_elements, name))

AddSignal ==
    \E name \in ChannelNames, len \in {n_elements, n_elements + 1} :
        StoreCalled("add_signal", name, len = n_elements,
                    add_signal(data_dict, random_generator, n_elements, name, Constant(len, 3)),
                    add_signal(twin_dict, twin_generator, n_elements, name, Constant(len, 3)))

AddTime ==
    \E len \in {n_elements, n_elements + 1} :
        StoreCalled("add_time", TIME_KEY, TRUE,
                    add_time(data_dict, random_generator, TimeAxis(len)),
                    add_time(twin_dict, twin_generator, TimeAxis(len)))

GetSignal ==
    \E name \in ChannelNames :
        StoreCalled("get_signal", name, TRUE,
                    get_signal(data_dict, random_generator, name),
                    get_signal(twin_dict, twin_generator, name))

AddConstant ==
    StoreCalled("add_constant", "", TRUE,
                add_constant(data_dict, random_generator, -1),
                add_constant(twin_dict, twin_generator, -1))

AddConstantToSignal ==
    \E name \in ChannelNames :
        StoreCalled("add_constant_to_signal", name, TRUE,
                    add_constant_to_signal(data_dict, random_generator, name, -1),
                    add_constant_to_signal(twin_dict, twin_generator, name, -1))

Multiply ==
    StoreCalled("multiply", "", TRUE,
                multiply(data_dict, random_generator, 2),
                multiply(twin_dict, twin_generator, 2))

MultiplySignal ==
    \E name \in ChannelNames :
        StoreCalled("multiply_signal", name, TRUE,
                    multiply_signal(data_dict, random_generator, name, 2),
                    multiply_signal(twin_dict, twin_generator, name, 2))

Round ==
    StoreCalled("round", "", TRUE,
                round(data_dict, random_generator), round(twin_dict, twin_generator))

RoundSignal ==
    \E name \in ChannelNames :
        StoreCalled("round_signal", name, TRUE,
                    round_signal(data_dict, random_generator, name),
                    round_signal(twin_dict, twin_generator, name))

\* on a channel without samples the restoration reads and writes element 0
ApplyBaselineRestoration ==
    \E ws \in {-1, 1} :
        IF \E k \in DOMAIN data_dict : k # TIME_KEY /\ Len(data_dict[k]) = 0
        THEN \E out \in UndefinedOutcomes :
                 StoreCalled("apply_baseline_restoration", "", TRUE,
                             Result(data_dict, random_generator, out),
                             Result(twin_dict, twin_generator, out))
        ELSE StoreCalled("apply_baseline_restoration", "", TRUE,
                         apply_baseline_restoration_all(data_dict, random_generator, ws),
                         apply_baseline_restoration_all(twin_dict, twin_generator, ws))

ApplyButterworth ==
    StoreCalled("apply_butterworth_lowpass_filter", "", TRUE,
                apply_butterworth_lowpass_filter_all(data_dict, random_generator, 1, 2),
                apply_butterworth_lowpass_filter_all(twin_dict, twin_generator, 1, 2))

ApplyButterworthToSignal ==
    \E name \in ChannelNames :
        StoreCalled("apply_butterworth_lowpass_filter_to_signal", name, TRUE,
                    apply_butterworth_lowpass_filter_to_signal(data_dict, random_generator, name, 1, 2),
                    apply_butterworth_lowpass_filter_to_signal(twin_dict, twin_generator, name, 1, 2))

ApplyBessel ==
    \E order \in {1, 5} :
        StoreCalled("apply_bessel_lowpass_filter", "", TRUE,
                    apply_bessel_lowpass_filter_all(data_dict, random_generator, order, 2),
                    apply_bessel_lowpass_filter_all(twin_dict, twin_generator, order, 2))

ApplyBesselToSignal ==
    \E name \in ChannelNames, order \in {1, 5} :
        StoreCalled("apply_bessel_lowpass_filter_to_signal", name, TRUE,
                    apply_bessel_lowpass_filter_to_signal(data_dict, random_generator, name, order, 2),
                    apply_bessel_lowpass_filter_to_signal(twin_dict, twin_generator, name, order, 2))

\* one pulse at time 0, and three arrays that do not have one length
PulseSets ==
    {[sigmas |-> <<1>>, centers |-> <<0>>, coupling_power |-> <<16>>],
     [sigmas |-> <<1>>, centers |-> <<0, 1>>, coupling_power |-> <<16>>]}

GeneratePulses ==
    \E pulses \in PulseSets :
        StoreCalled("generate_pulses", "", SameSize(pulses),
                    generate_pulses(data_dict, random_generator, n_elements, pulses, 1),
                    generate_pulses(twin_dict, twin_generator, n_elements, pulses, 1))

GeneratePulsesSignal ==
    \E name \in ChannelNames, pulses \in PulseSets :
        StoreCalled("generate_pulses_signal", name, SameSize(pulses),
                    generate_pulses_signal(data_dict, random_generator, n_elements, name, pulses, 1),
                    generate_pulses_signal(twin_dict, twin_generator, n_elements, name, pulses, 1))

AddGaussianNoise ==
    \E e1 \in Entropy, e2 \in Entropy :
        StoreCalled("add_gaussian_noise", "", TRUE,
                    add_gaussian_noise(data_dict, random_generator, e1, 0, 1),
                    add_gaussian_noise(twin_dict, twin_generator, e2, 0, 1))

AddGaussianNoiseToSignal ==
    \E name \in ChannelNames, e1 \in Entropy, e2 \in Entropy :
        StoreCalled("add_gaussian_noise_to_signal", name, TRUE,
                    add_gaussian_noise_to_signal(data_dict, random_generator, e1, name, 0, 1),
                    add_gaussian_noise_to_signal(twin_dict, twin_generator, e2, name, 0, 1))

ApplyPoissonNoise ==
    \E e1 \in Entropy, e2 \in Entropy :
        StoreCalled("apply_poisson_noise", "", TRUE,
                    apply_poisson_noise(data_dict, random_generator, e1),
                    apply_poisson_noise(twin_dict, twin_generator, e2))

ApplyPoissonNoiseToSignal ==
    \E name \in ChannelNames, e1 \in Entropy, e2 \in Entropy :
        StoreCalled("apply_poisson_noise_to_signal", name, TRUE,
                    apply_poisson_noise_to_signal(data_dict, random_generator, e1, name),
                    apply_poisson_noise_to_signal(twin_dict, twin_generator, e2, name))

StoreNext ==
    \/ CreateZeroSignal
    \/ AddSignal
    \/ AddTime
    \/ GetSignal
    \/ AddConstant
    \/ AddConstantToSignal
    \/ Multiply
    \/ MultiplySignal
    \/ Round
    \/ RoundSignal
    \/ ApplyBaselineRestoration
    \/ ApplyButterworth
    \/ ApplyButterworthToSignal
    \/ ApplyBessel
    \/ ApplyBesselToSignal
    \/ GeneratePulses
    \/ GeneratePulsesSignal
    \/ AddGaussianNoise
    \/ AddGaussianNoiseToSignal
    \/ ApplyPoissonNoise
    \/ ApplyPoissonNoiseToSignal

StoreSpec == StoreInit /\ [][StoreNext]_vars

\* ---------------------------------------------------- the store's properties
PoissonCalled == last_call.op \in {"apply_poisson_noise", "apply_poisson_noise_to_signal"}

PoissonRefused == PoissonCalled /\ last_call.outcome = "NegativeValueForPoissonNoise"

\* C11: a Poisson noise call that fails with NegativeValueForPoissonNoise
\* leaves every sample of every channel as it was before the call
C11_PoissonFailureLeavesChannels == PoissonRefused => data_dict = prev_dict

\* C11, what the loop does keep: a refused call changes no channel's length
\* and no negative sample, and leaves the time axis alone
C11_RefusedKeepsNegatives ==
    PoissonRefused =>
        /\ DOMAIN data_dict = DOMAIN prev_dict
        /\ \A k \in DOMAIN data_dict :
               /\ Len(data_dict[k]) = Len(prev_dict[k])
               /\ k = TIME_KEY => data_dict[k] = prev_dict[k]
               /\ \A q \in 1..Len(prev_dict[k]) :
                      prev_dict[k][q] < 0 => data_dict[k][q] = prev_dict[k][q]

\* C11: a refused Poisson call after which an earlier sample has been replaced
C11_PartlyNoised == PoissonRefused /\ data_dict # prev_dict

PerChannelOps ==
    {"get_signal", "add_constant_to_signal", "multiply_signal", "round_signal",
     "apply_butterworth_lowpass_filter_to_signal", "apply_bessel_lowpass_filter_to_signal",
     "generate_pulses_signal", "add_gaussian_noise_to_signal",
     "apply_poisson_noise_to_signal"}

NameWasKnown == has_signal(prev_dict, last_call.name)

StoreRefused ==
    \/ last_call.outcome \in {"DuplicateChannel", "UnknownChannel"}
    \/ last_call.op = "add_signal" /\ last_call.outcome = "LengthMismatch"

C14_DuplicateReached ==
    last_call.op = "add_signal" /\ last_call.outcome = "DuplicateChannel" /\ calls = 2

C14_MismatchReached == last_call.op = "add_signal" /\ last_call.outcome = "LengthMismatch"

ChannelsHaveNElements ==
    \A k \in DOMAIN data_dict : k # TIME_KEY => Len(data_dict[k]) = n_elements

\* a channel is only ever created under a name the store did not have
CreatedUnderNewName ==
    (last_call.op \in {"add_signal", "create_zero_signal"} /\ last_call.outcome = "ok")
        => /\ ~NameWasKnown
           /\ DOMAIN data_dict = DOMAIN prev_dict \cup {last_call.name}
           /\ \A k \in DOMAIN prev_dict : data_dict[k] = prev_dict[k]

\* C15: after any sequence of store operations, succeeding or failing, every
\* channel but the time axis has exactly n samples, no channel was created
\* under a name already in use, and n is still the value given at
\* construction
C15_ChannelsKeepLength ==
    /\ [](ChannelsHaveNElements /\ CreatedUnderNewName)
    /\ [][n_elements' = n_elements]_vars

\* C15: two channels of n > 0 samples after a channel was added and a filter
\* or a noise call or a pulse generation went through
C15_Witness ==
    /\ n_elements > 0
    /\ calls = 2
    /\ {"A", "B"} \subseteq DOMAIN data_dict
    /\ ~has_signal(prev_dict, "A") \/ data_dict # prev_dict
    /\ last_call.outcome = "ok"
    /\ last_call.op \in {"apply_butterworth_lowpass_filter", "apply_bessel_lowpass_filter",
                         "add_gaussian_noise", "generate_pulses", "add_signal",
                         "create_zero_signal"}

PulseCalled == last_call.op \in {"generate_pulses", "generate_pulses_signal"}

TimeAxisWasReady ==
    has_signal(prev_dict, TIME_KEY) /\ Len(prev_dict[TIME_KEY]) = n_elements

\* C16: pulse generation fails with MissingTimeAxis when the time axis is
\* absent or not n samples long, and with LengthMismatch when the three
\* pulse arrays differ in length; in both cases no channel is modified
C16_PulseErrorsBeforeWriting ==
    PulseCalled =>
        /\ (last_call.op = "generate_pulses" \/ NameWasKnown)
               => /\ ~TimeAxisWasReady => last_call.outcome = "MissingTimeAxis"
                  /\ (TimeAxisWasReady /\ ~last_call.same_size)
                         => last_call.outcome = "LengthMismatch"
        /\ last_call.outcome \in {"MissingTimeAxis", "LengthMismatch"}
               => data_dict = prev_dict

\* C16: pulse generation refused on a store that has a channel and a time
\* axis of the wrong length
C16_Witness ==
    /\ PulseCalled
    /\ last_call.outcome = "MissingTimeAxis"
    /\ has_signal(prev_dict, TIME_KEY)
    /\ Len(prev_dict[TIME_KEY]) # n_elements
    /\ has_signal(prev_dict, "A")

\* C16: pulse arrays of different lengths refused with two channels present
C16_MismatchReached ==
    /\ last_call.op = "generate_pulses"
    /\ last_call.outcome = "LengthMismatch"
    /\ {"A", "B"} \subseteq DOMAIN prev_dict

\* C16: pulses written into a channel
C16_PulsesWritten ==
    PulseCalled /\ last_call.outcome = "ok" /\ data_dict # prev_dict

GaussianCalled == last_call.op \in {"add_gaussian_noise", "add_gaussian_noise_to_signal"}

NoiseCalled == GaussianCalled \/ PoissonCalled

RECURSIVE TotalLen(_, _)
TotalLen(keys, dict) ==
    IF keys = <<>> THEN 0 ELSE Len(dict[Head(keys)]) + TotalLen(Tail(keys), dict)

\* the samples the last Gaussian call had to noise
NoisedSamples ==
    IF last_call.op = "add_gaussian_noise" THEN TotalLen(SignalKeys(prev_dict), prev_dict)
    ELSE Len(prev_dict[last_call.name])

C17_PoissonAfterGaussian ==
    /\ PoissonCalled
    /\ last_call.outcome = "ok"
    /\ last_call.pos_before > 0
    /\ random_generator.pos > last_call.pos_before
    /\ \E k \in DOMAIN prev_dict : k # TIME_KEY /\ \E q \in DOMAIN prev_dict[k] :
           prev_dict[k][q] \notin SampleValues \cup {0}

\* ---------------------------------------------- parallel pulse accumulation
MaxParticles == 2
MaxWorkers == 2
MaxTimes == 2

Threads == 1..MaxWorkers

ParticleSettings == {[width |-> 1, center |-> c, coupling |-> 16] : c \in {0, 1}}

\* a thread of the team outside the loop body
IdleThread == [i |-> 0, t_idx |-> 0, phase |-> "idle", value |-> 0]

\* gauss_val of particle i at sample q, whose time is TimeAxis(..)[q]
Contribution(i, q) ==
    gauss_val(particles[i].width, particles[i].center, particles[i].coupling,
              TimeAxis(Len(total_power))[q])

\* the inner loop after the add at sample q: ++t_idx, or the iteration ends
AfterAdd(me, q) ==
    IF q = Len(total_power) THEN IdleThread
    ELSE [i |-> me.i, t_idx |-> q + 1, phase |-> "add", value |-> 0]

\* variant without the pragma: the read and the write of the sample are two
\* steps, and other threads run between them
PowerAdd_Plain(w) ==
    LET me == loaded[w]
        q  == me.t_idx
    IN  IF me.phase = "add"
        THEN /\ loaded' = [loaded EXCEPT ![w] = [me EXCEPT !.phase = "write",
                                                          !.value = total_power[q]]]
             /\ UNCHANGED total_power
        ELSE /\ total_power' = [total_power EXCEPT ![q] = me.value + Contribution(me.i, q)]
             /\ loaded' = [loaded EXCEPT ![w] = AfterAdd(me, q)]

\* #pragma omp atomic  power_ptr[t_idx] += gauss_val: one indivisible step
PowerAdd(w) ==
    LET me == loaded[w]
        q  == me.t_idx
    IN  /\ total_power' = [total_power EXCEPT ![q] = @ + Contribution(me.i, q)]
        /\ loaded' = [loaded EXCEPT ![w] = AfterAdd(me, q)]

\* the state when the parallel loop is entered: the output holds the
\* background level, no iteration has been handed out
AcqInit ==
    /\ m_background_power = 1
    /\ \E nTimes \in 0..MaxTimes : total_power = [q \in 1..nTimes |-> m_background_power]
    /\ particles \in SeqsUpTo(ParticleSettings, MaxParticles)
    /\ pending = DOMAIN particles
    /\ loaded = [w \in Threads |-> IdleThread]
    /\ TriggerIdle /\ StoreIdle /\ FilterIdle

\* #pragma omp parallel for: a free thread is handed an iteration nobody has
\* run; which one is up to the schedule
TakeIteration ==
    \E w \in Threads, i \in pending :
        /\ loaded[w].phase = "idle"
        /\ pending' = pending \ {i}
        /\ loaded' = [loaded EXCEPT ![w] =
                          IF Len(total_power) = 0 THEN IdleThread
                          ELSE [i |-> i, t_idx |-> 1, phase |-> "add", value |-> 0]]
        /\ UNCHANGED <<total_power, particles, m_background_power>>
        /\ UNCHANGED <<params, sysvars, segvars, storevars, filtervars>>

\* one pass of the inner loop body in one thread
Accumulate ==
    \E w \in Threads :
        /\ loaded[w].phase # "idle"
        /\ PowerAdd(w)
        /\ UNCHANGED <<pending, particles, m_background_power>>
        /\ UNCHANGED <<params, sysvars, segvars, storevars, filtervars>>

AcqNext == TakeIteration \/ Accumulate

AcqSpec == AcqInit /\ [][AcqNext]_vars

\* --------------------------------------------- the accumulation's properties
\* particle i has made its add at sample q
Added(i, q) ==
    /\ i \notin pending
    /\ \A w \in Threads : loaded[w].i = i => loaded[w].t_idx > q

RECURSIVE AddedSum(_, _)
AddedSum(k, q) ==
    IF k = 0 THEN 0
    ELSE (IF Added(k, q) THEN Contribution(k, q) ELSE 0) + AddedSum(k - 1, q)

LoopDone == pending = {} /\ \A w \in Threads : loaded[w].phase = "idle"

\* C18: under every interleaving of the threads each output sample equals the
\* background level plus the contributions of the particles that have made
\* their add at that sample, each counted once; when the loop is done that
\* is the background plus the sum over all particles
C18_NoContributionLostOrDuplicated ==
    /\ \A q \in DOMAIN total_power :
           total_power[q] = m_background_power + AddedSum(Len(particles), q)
    /\ LoopDone => \A q \in DOMAIN total_power, i \in DOMAIN particles : Added(i, q)

\* C18: the loop has finished over two particles and at least one sample
C18_Witness ==
    /\ LoopDone
    /\ Len(particles) >= 2
    /\ Len(total_power) >= 1
    /\ \A q \in DOMAIN total_power : total_power[q] > m_background_power

\* C18: two threads are about to add to the same sample
C18_TwoThreadsSameSample ==
    \E w1 \in Threads, w2 \in Threads :
        /\ w1 # w2
        /\ loaded[w1].phase = "add" /\ loaded[w2].phase = "add"
        /\ loaded[w1].t_idx = loaded[w2].t_idx

\* ------------------------------------------------ calls on an empty vector
\* C21: a filter call on a vector of zero samples, with a cutoff the filter
\* accepts, fails with EmptySignal instead of returning normally
C21_EmptySignalRejected ==
    (LowpassCalled /\ orig_signal = <<>> /\ ~AtOrAboveNyquist)
        => filter_call.outcome = "EmptySignal"

\* C21, what the free filter functions do: apply_bessel_lowpass_filter_fft
\* returns at `if (n_samples == 0) return;` and the call ends normally
C21_EmptyIsNoOp ==
    /\ filter_call.op = "bessel_fft"
    /\ orig_signal = <<>>
    /\ ~AtOrAboveNyquist
    /\ filter_call.outcome = "ok"
    /\ signal = <<>>

\* C21, what does hold in the store: Poisson noise on a channel that exists
\* and has no sample is refused, and nothing is drawn
C21_StorePoissonRefusesEmpty ==
    (last_call.op = "apply_poisson_noise_to_signal" /\ NameWasKnown
         /\ prev_dict[last_call.name] = <<>>)
        => /\ last_call.outcome = "EmptySignal"
           /\ data_dict = prev_dict
           /\ random_generator.pos = last_call.pos_before

\* ------------------------------------------------------------ filter DC gain
IsConstant(sig) == \A p \in DOMAIN sig, q \in DOMAIN sig : sig[p] = sig[q]

\* a Butterworth call of positive order or a Bessel call of order 1 to 4
\* that went through with gain 1
UnitGainLowpass ==
    /\ filter_call.outcome = "ok"
    /\ filter_call.gain = 1
    /\ \/ filter_call.op \in {"butterworth", "butterworth_fft"} /\ filter_call.order >= 1
       \/ filter_call.op \in {"bessel", "bessel_fft", "bessel_mask"}
              /\ filter_call.order \in 1..4

C22_NonConstantSmoothed ==
    /\ UnitGainLowpass
    /\ filter_call.op \in {"butterworth_fft", "bessel_mask"}
    /\ signal # orig_signal

\* ------------------------------------- channels and time axis of any length
\* add_signal and add_time accept 1-D arrays of any length: a system whose
\* second channel or time axis is one sample shorter or longer than the
\* trigger channel
RaggedInit ==
    /\ scheme \in {"fixed-window", "dynamic-simple", "dynamic"}
    /\ threshold = 1
    /\ pre_buffer \in 0..MaxPre
    /\ post_buffer \in 0..MaxPost
    /\ max_triggers = -1
    /\ lower_threshold = NaN
    /\ debounce_enabled = FALSE
    /\ min_window_duration = -1
    /\ \E sig \in Signals, nb \in {-1, 0, 1}, nt \in {-1, 0, 1} :
           /\ Len(sig) + nb >= 0
           /\ Len(sig) + nt >= 0
           /\ triggers = <<NewTrigger("A", sig),
                           NewTrigger("B", [q \in 1..(Len(sig) + nb) |-> 10 * q])>>
           /\ global_time = TimeAxis(Len(sig) + nt)
    /\ valid_triggers = <<>>
    /\ cands = <<>>
    /\ scan = NoScan
    /\ runs = 0
    /\ status = "none"
    /\ signal_segments = <<>>
    /\ time_out = <<>>
    /\ segment_ids_out = <<>>
    /\ seg_calls = 0
    /\ StoreIdle /\ FilterIdle /\ AcqIdle

RaggedSpec == RaggedInit /\ [][Next]_vars

\* C23: segment extraction never reads the time axis at an index >= its
\* length, even when the time axis is shorter than the channels: a run ends
\* normally and every index it read for a time value is one of the axis
C23_NoReadBeyondOwnLength ==
    runs >= 1 =>
        /\ status # "crash"
        /\ TimeIndexesRead(triggers, valid_triggers) \subseteq TimeIndexes(global_time)

\* C23, what does hold: a channel is only read below its own length, and as
\* many time values and segment ids are emitted for it as samples
C23_ChannelReadsClamped ==
    (runs >= 1 /\ status \in {"ok", "warned"}) =>
        \A p \in DOMAIN triggers :
            /\ Len(triggers[p].time_out) = Len(triggers[p].signal_out)
            /\ Len(triggers[p].segment_ids_out) = Len(triggers[p].signal_out)
            /\ \A k \in DOMAIN valid_triggers :
                   \A q \in DOMAIN SliceIndices(valid_triggers[k], Len(triggers[p].signal)) :
                       SliceIndices(valid_triggers[k], Len(triggers[p].signal))[q]
                           < Len(triggers[p].signal)

\* C23: a run on a time axis shorter than the channel emitted a value that is
\* not on the axis
C23_GarbageTimeEmitted ==
    /\ runs = 1
    /\ status = "ok"
    /\ Len(global_time) < Len(triggers[1].signal)
    /\ \E q \in DOMAIN triggers[1].time_out : triggers[1].time_out[q] \in GarbageValues

\* ------------------------------------------------- windows and their runs
DynamicScheme == scheme \in {"dynamic-simple", "dynamic"}

\* the accepted window of crossing c reaches from its rising edge to the
\* last sample of the run above the threshold that begins there
CoversRun(c) ==
    /\ c.start <= c.edge
    /\ c.end >= RunEnd(TriggerSignal, c.edge, threshold) - 1

\* C24: every window accepted by DynamicWindow or DoubleThreshold contains
\* its rising edge and every sample of the run above the threshold that
\* begins there, for every buffer, lower threshold and debounce setting
C24_WindowCoversRun ==
    (Ran /\ DynamicScheme) =>
        \A q \in 1..Len(cands) : cands[q].verdict = "accepted" => CoversRun(cands[q])

\* C24, what does hold: the window covers the run unless the debounce count
\* stopped inside the run and lower_threshold lies above the threshold
C24_CoversRunUnlessLowerAbove ==
    (Ran /\ DynamicScheme /\ ~(DebounceActive /\ LowerInForce > threshold)) =>
        \A q \in 1..Len(cands) : cands[q].verdict = "accepted" => CoversRun(cands[q])

\* C24: a window that ends inside its run
C24_TruncatedReached ==
    /\ Ran /\ DebounceActive /\ LowerInForce > threshold
    /\ \E q \in 1..Len(cands) : cands[q].verdict = "accepted" /\ ~CoversRun(cands[q])

\* ------------------------------------------------- candidates not accepted
\* end of the last window accepted before crossing q was examined
RECURSIVE LastAcceptedEndBefore(_, _)
LastAcceptedEndBefore(cs, q) ==
    IF q <= 1 THEN -1
    ELSE IF cs[q - 1].verdict = "accepted" THEN cs[q - 1].end
    ELSE LastAcceptedEndBefore(cs, q - 1)

\* C25: a candidate that is not accepted (out of bounds in FixedWindow,
\* rejected by debounce in DoubleThreshold, or starting at or before the
\* end of the last accepted window) adds no window and leaves last_end as
\* it was, so every candidate is compared with the end of the last window
\* that was accepted
C25_RejectionChangesNothing ==
    Ran =>
        /\ HistoryMatches
        /\ LastEndChained
        /\ \A q \in 1..Len(cands) :
               LET c == cands[q]
               IN  /\ c.verdict # "accepted" => c.last_end_after = c.last_end
                   /\ c.verdict = "accepted" => c.last_end_after = c.end
                   /\ c.last_end = LastAcceptedEndBefore(cands, q)
                   /\ c.verdict = "overlap" => c.start <= LastAcceptedEndBefore(cands, q)
                   /\ c.verdict = "accepted" => c.start > LastAcceptedEndBefore(cands, q)
                   /\ c.verdict = "bounds" => scheme = "fixed-window"
                   /\ c.verdict = "debounce" => scheme = "dynamic"

\* C25: a candidate was refused for starting at or before the end of the
\* window accepted before it
C25_Witness ==
    /\ Ran
    /\ \E q \in 2..Len(cands) :
           /\ cands[q].verdict = "overlap"
           /\ cands[q - 1].verdict = "accepted"
           /\ cands[q].end > cands[q - 1].end

\* C25: a window accepted after a candidate was refused for its bounds
C25_AcceptedAfterBounds ==
    /\ Ran
    /\ \E q \in 2..Len(cands) :
           cands[q - 1].verdict = "bounds" /\ cands[q].verdict = "accepted"

\* ------------------------------------------ BaseLineRestoration::process
\* #pragma omp parallel for over the entries of data_dict; the iteration of
\* every entry but "Time" calls signal_generator.apply_baseline_restoration
\* (window_size), the store's method that restores every channel but "Time".
\* One restoration of one channel is a read of its samples followed by a
\* write of the restored samples.
CircuitWindows == {-1, 1}

CircuitValues == {1, 3}

CircuitDatas(n) == {d \in SeqsUpTo(CircuitValues, n) : Len(d) = n}

\* a thread of the team that runs no iteration
IdleWorker == [iter |-> "", at |-> 0, phase |-> "idle", orig |-> <<>>]

\* the channel a thread inside the store's loop is at
ChannelAt(w) == SignalKeys(data_dict)[circuit.workers[w].at]

\* process() has been called on a store of one to MaxElements samples per
\* channel; no iteration has started
CircuitInit ==
    /\ n_elements \in 1..MaxElements
    /\ \E ks \in SUBSET {"A", "B", TIME_KEY}, a \in CircuitDatas(n_elements),
          b \in CircuitDatas(n_elements) :
           data_dict = [k \in ks |-> IF k = "A" THEN a
                                     ELSE IF k = "B" THEN b ELSE TimeAxis(n_elements)]
    /\ random_generator = [seed |-> 0, pos |-> 0]
    /\ twin_dict = <<>>
    /\ twin_generator = [seed |-> 0, pos |-> 0]
    /\ prev_dict = data_dict
    /\ last_call = [op |-> "none", name |-> "", outcome |-> "none", same_size |-> TRUE,
                    pos_before |-> 0]
    /\ calls = 0
    /\ \E ws \in CircuitWindows :
           circuit = [window_size |-> ws, todo |-> DOMAIN data_dict,
                      workers |-> [w \in Threads |-> IdleWorker],
                      writes |-> [k \in DOMAIN data_dict |-> {}],
                      outcome |-> "running"]
    /\ TriggerIdle /\ FilterIdle /\ AcqIdle

CircuitStep(c, dict) ==
    /\ circuit' = c
    /\ data_dict' = dict
    /\ UNCHANGED <<n_elements, random_generator, twin_dict, twin_generator, prev_dict,
                   last_call, calls, params, sysvars, segvars, filtervars, acqvars>>

\* a thread takes an iteration of the parallel loop: the entry of "Time"
\* fails the if and ends at once, any other entry enters the store's loop
\* over its channels
TakeEntry(w) ==
    /\ circuit.outcome = "running"
    /\ circuit.workers[w].phase = "idle"
    /\ \E k \in circuit.todo :
           CircuitStep([circuit EXCEPT
                           !.todo = @ \ {k},
                           !.workers[w] = IF k = TIME_KEY THEN IdleWorker
                                          ELSE [iter |-> k, at |-> 1, phase |-> "read",
                                                orig |-> <<>>]],
                       data_dict)

\* the restoration reads the samples of the channel the thread is at
ReadChannel(w) ==
    /\ circuit.outcome = "running"
    /\ circuit.workers[w].phase = "read"
    /\ CircuitStep([circuit EXCEPT !.workers[w].phase = "write",
                                   !.workers[w].orig = data_dict[ChannelAt(w)]],
                   data_dict)

\* the thread after the write: the next channel of the store's loop, or the
\* end of its iteration
AfterWrite(me, keys) ==
    IF me.at = Len(keys) THEN IdleWorker
    ELSE [me EXCEPT !.at = @ + 1, !.phase = "read", !.orig = <<>>]

\* the restoration writes the restored samples back
WriteChannel(w) ==
    /\ circuit.outcome = "running"
    /\ circuit.workers[w].phase = "write"
    /\ LET me == circuit.workers[w]
           k  == ChannelAt(w)
       IN  CircuitStep([circuit EXCEPT
                           !.workers[w] = AfterWrite(me, SignalKeys(data_dict)),
                           !.writes[k] = @ \cup {me.iter}],
                       With(data_dict, k,
                            compute_baseline_restoration(me.orig, circuit.window_size)))

\* two threads are inside the restoration of one channel at once
Racing(w) ==
    /\ circuit.workers[w].phase # "idle"
    /\ \E v \in Threads \ {w} :
           /\ circuit.workers[v].phase # "idle"
           /\ ChannelAt(v) = ChannelAt(w)
           /\ "write" \in {circuit.workers[v].phase, circuit.workers[w].phase}

\* unsynchronised accesses to one vector, one of them a write: the
\* behaviour is undefined, and apart from the interleavings above the
\* process can end here
RaceFault(w) ==
    /\ circuit.outcome = "running"
    /\ Racing(w)
    /\ CircuitStep([circuit EXCEPT !.outcome = "crash"], data_dict)

CircuitNext ==
    \E w \in Threads : TakeEntry(w) \/ ReadChannel(w) \/ WriteChannel(w) \/ RaceFault(w)

CircuitSpec == CircuitInit /\ [][CircuitNext]_vars

\* every iteration has been taken and has ended
ProcessDone ==
    /\ circuit.outcome = "running"
    /\ circuit.todo = {}
    /\ \A w \in DOMAIN circuit.workers : circuit.workers[w].phase = "idle"

RestoredOnce(k) ==
    data_dict[k] = compute_baseline_restoration(prev_dict[k], circuit.window_size)

\* C26: BaseLineRestoration::process restores each non-time channel exactly
\* once: whatever the number of channels and the interleaving of the
\* parallel iterations, no channel is written by two iterations, the run does
\* not fault, and at the end each channel holds one application of baseline
\* restoration with window_size to its original content.
C26_EachChannelRestoredOnce ==
    /\ circuit.outcome # "crash"
    /\ \A k \in DOMAIN circuit.writes : Cardinality(circuit.writes[k]) <= 1
    /\ ProcessDone => \A k \in DOMAIN data_dict \ {TIME_KEY} : RestoredOnce(k)

\* C26, what holds: with a single non-time channel the channel is restored
\* once, by its own iteration.
C26_SingleChannelRestoredOnce ==
    Len(SignalKeys(data_dict)) = 1 =>
        /\ circuit.outcome # "crash"
        /\ \A k \in DOMAIN circuit.writes : circuit.writes[k] \subseteq {k} \ {TIME_KEY}
        /\ ProcessDone => \A k \in DOMAIN data_dict \ {TIME_KEY} : RestoredOnce(k)

\* C26, reachable: the process is over without a fault and a channel holds
\* the restoration of its restored content.
C26_RestoredTwice ==
    /\ ProcessDone
    /\ \E k \in DOMAIN data_dict \ {TIME_KEY} :
           /\ ~RestoredOnce(k)
           /\ data_dict[k] =
                  compute_baseline_restoration(
                      compute_baseline_restoration(prev_dict[k], circuit.window_size),
                      circuit.window_size)

\* C26, reachable: two iterations were inside one channel at once.
C26_RaceReached == circuit.outcome = "crash"

\* ------------------------------------------------- windows and rising edges
\* the indices i >= 1 with signal[i-1] <= threshold < signal[i], read off
\* the samples
CrossingsOf(sig, thr) ==
    {i \in 1..(Len(sig) - 1) : sig[i] <= thr /\ thr < sig[i + 1]}

\* the start of the window that a crossing at i gives in the scheme in force
StartFrom(i) ==
    IF scheme = "fixed-window" THEN i - pre_buffer
    ELSE IF i - pre_buffer < 0 THEN 0 ELSE i - pre_buffer

AllAbove(sig, thr) == \A q \in 1..Len(sig) : sig[q] > thr

AllAtOrBelow(sig, thr) == \A q \in 1..Len(sig) : sig[q] <= thr

\* C27: in all three variants a window is produced only by a rising edge at
\* an index i >= 1 with signal[i-1] <= threshold < signal[i]: every crossing
\* the scan took up is such an index, later than the one before, no window
\* belongs to a run above the threshold that begins at sample 0, and a
\* signal above the threshold at every sample, or at or below it at every
\* sample, yields no window.
C27_WindowsOnlyFromRisingEdges ==
    Ran =>
        /\ HistoryMatches
        /\ \A q \in 1..Len(cands) :
               /\ cands[q].edge \in CrossingsOf(TriggerSignal, threshold)
               /\ q > 1 => cands[q].edge > cands[q - 1].edge
               /\ cands[q].verdict = "accepted" => cands[q].start = StartFrom(cands[q].edge)
        /\ \A k \in 1..Len(valid_triggers) :
               \E i \in CrossingsOf(TriggerSignal, threshold) :
                   WStart(valid_triggers[k]) = StartFrom(i)
        /\ Len(valid_triggers) <= Cardinality(CrossingsOf(TriggerSignal, threshold))
        /\ (n_trigger > 0 /\ TriggerSignal[1] > threshold) =>
               \A q \in 1..Len(cands) : cands[q].edge > RunEnd(TriggerSignal, 0, threshold)
        /\ (AllAbove(TriggerSignal, threshold) \/ AllAtOrBelow(TriggerSignal, threshold)) =>
               valid_triggers = <<>>

\* C27, the case: the signal begins above the threshold, falls, and rises
\* again; the only window comes from the second run.
C27_Witness ==
    /\ Ran
    /\ n_trigger >= 3
    /\ TriggerSignal[1] > threshold
    /\ Len(valid_triggers) = 1
    /\ Cardinality(CrossingsOf(TriggerSignal, threshold)) = 1

\* C27, reachable: a run on a signal of several samples, all above the
\* threshold, returns no window.
C27_AllAboveReached ==
    /\ Ran
    /\ n_trigger >= 2
    /\ AllAbove(TriggerSignal, threshold)
    /\ valid_triggers = <<>>

\* ------------------------------------- DoubleThreshold and DynamicWindow
\* the lower threshold is unspecified or equal to the threshold, and the
\* debounce test is off
PlainDoubleThreshold ==
    /\ scheme = "dynamic"
    /\ lower_threshold.isnan \/ lower_threshold = Num(threshold)
    /\ ~debounce_enabled \/ min_window_duration = -1

DynamicWindows ==
    run_dynamic(TriggerSignal, threshold, pre_buffer, post_buffer, max_triggers).valid

\* C28: DoubleThreshold with lower_threshold unspecified (NaN) or equal to
\* threshold, and with debounce disabled or min_window_duration = -1,
\* returns exactly the windows DynamicWindow returns for the same signal,
\* threshold, pre_buffer, post_buffer and max_triggers: the scan run()
\* dispatches to gives them, and a run that has returned holds them.
C28_PlainDoubleThresholdIsDynamic ==
    PlainDoubleThreshold =>
        /\ RunScheme(TriggerSignal).valid = DynamicWindows
        /\ Ran => valid_triggers = DynamicWindows

\* C28, the case: debounce is disabled with a positive min_window_duration,
\* the run above the threshold is shorter than that, and the window
\* DynamicWindow gives has been returned.
C28_Witness ==
    /\ PlainDoubleThreshold
    /\ Ran
    /\ ~debounce_enabled
    /\ min_window_duration >= 2
    /\ valid_triggers # <<>>
    /\ valid_triggers = DynamicWindows
    /\ \E i \in CrossingsOf(TriggerSignal, threshold) :
           RunLength(TriggerSignal, i, threshold) < min_window_duration

\* C28, reachable: the lower threshold was given equal to the threshold and
\* debounce is enabled with min_window_duration = -1.
C28_EqualLowerReached ==
    /\ PlainDoubleThreshold
    /\ runs = 0
    /\ lower_threshold = Num(threshold)
    /\ debounce_enabled
    /\ RunScheme(TriggerSignal).valid # <<>>

\* --------------------------------------------------- limiting the count
\* the windows of the scheme in force with the parameters in force, but
\* with max_triggers = -1
UnlimitedWindows ==
    CASE scheme = "fixed-window" ->
            run_fixed_window(TriggerSignal, threshold, pre_buffer, post_buffer, -1).valid
      [] scheme = "dynamic" ->
            run_dynamic_single_threshold(TriggerSignal, threshold, lower_threshold,
                                         pre_buffer, post_buffer, -1, debounce_enabled,
                                         min_window_duration).valid
      [] scheme = "dynamic-simple" ->
            run_dynamic(TriggerSignal, threshold, pre_buffer, post_buffer, -1).valid

FirstWindows(ws, m) == SubSeq(ws, 1, IF m < Len(ws) THEN m ELSE Len(ws))

\* C29: for every trigger variant and every m >= 1, the windows returned
\* with max_triggers = m are the first m windows (or all of them, if fewer)
\* returned with max_triggers = -1 on the same signal and parameters.
C29_LimitKeepsFirstWindows ==
    (Ran /\ max_triggers >= 1) =>
        valid_triggers = FirstWindows(UnlimitedWindows, max_triggers)

\* C29, the case: the unlimited scan gives more windows than max_triggers
\* allows, and the run has returned the first max_triggers of them.
C29_Witness ==
    /\ Ran
    /\ max_triggers >= 1
    /\ Len(UnlimitedWindows) > max_triggers
    /\ Len(valid_triggers) = max_triggers
    /\ valid_triggers[1] = UnlimitedWindows[1]

\* C29, reachable in each variant: the limit cut the result short.
C29_CutFixedWindow == C29_Witness /\ scheme = "fixed-window"

C29_CutDoubleThreshold == C29_Witness /\ scheme = "dynamic" /\ DebounceActive

\* ------------------------------------------------ run(), statement by statement
\* One run() of TriggeringSystem followed through its loops: the for loop of
\* the scan (find_trigger_indices, run_dynamic, run_dynamic_single_threshold),
\* the inner while loops, the loop of apply_buffer_constraints, and the three
\* nested loops of extract_signal_segments.  scan.pc names the statement
\* about to be executed.
ScanLowerThresholds == {NaN, Num(0)}

ScanTriggerLimits == {-1, 1}

ScanInit ==
    /\ scheme \in {"fixed-window", "dynamic-simple", "dynamic"}
    /\ threshold = 1
    /\ pre_buffer \in {0, MaxPre}
    /\ post_buffer \in {0, MaxPost}
    /\ max_triggers \in ScanTriggerLimits
    /\ IF scheme = "dynamic"
       THEN /\ lower_threshold \in ScanLowerThresholds
            /\ \E ds \in DebounceSettings :
                   debounce_enabled = ds[1] /\ min_window_duration = ds[2]
       ELSE /\ lower_threshold = NaN
            /\ debounce_enabled = TRUE
            /\ min_window_duration = -1
    /\ \E sig \in Signals, nt \in {0, 1} :
           /\ triggers = <<NewTrigger("A", sig), NewTrigger("B", Companion(sig))>>
           /\ global_time = TimeAxis(Len(sig) + nt)
    /\ valid_triggers = <<>>
    /\ cands = <<>>
    /\ scan = [NoScan EXCEPT !.pc = "call"]
    /\ runs = 0
    /\ status = "none"
    /\ signal_segments = <<>>
    /\ time_out = <<>>
    /\ segment_ids_out = <<>>
    /\ seg_calls = 0
    /\ StoreIdle /\ FilterIdle /\ AcqIdle

\* a statement that changes the locals, the windows or the outputs
ScanMove(s, valid, trigs) ==
    /\ scan' = s
    /\ valid_triggers' = valid
    /\ triggers' = trigs
    /\ UNCHANGED <<lower_threshold, cands, runs, status, params, segvars, storevars,
                   filtervars, acqvars>>

\* variant that resumes at the crossing itself
ResumeAfter_AtCrossing(i, reached) == i

\* `i = j;` or `i = k;` followed by the `++i` of the for loop
ResumeAfter(i, reached) == reached + 1

\* run() up to the first loop test of the scan
StartRun ==
    /\ scan.pc = "call"
    /\ runs' = runs + 1
    /\ UNCHANGED <<triggers, valid_triggers, cands, params, segvars, storevars, filtervars,
                   acqvars>>
    /\ IF Len(global_time) = 0
       THEN /\ status' = "error"
            /\ scan' = [scan EXCEPT !.pc = "done"]
            /\ UNCHANGED lower_threshold
       ELSE /\ lower_threshold' = IF scheme = "dynamic"
                                  THEN EffectiveLower(threshold, lower_threshold)
                                  ELSE lower_threshold
            /\ scan' = [scan EXCEPT !.pc = "for", !.i = 1]
            /\ UNCHANGED status

\* `for (size_t i = 1; i < n; ++i) if (crossing at i) ...`
ForTest ==
    /\ scan.pc = "for"
    /\ LET sig == SignalOf(trigger_detector_name)
       IN  ScanMove(
               IF scan.i >= Len(sig)
               THEN IF scheme = "fixed-window"
                    THEN [scan EXCEPT !.pc = "buffer", !.p = 1]
                    ELSE [scan EXCEPT !.pc = "channel", !.c = 1]
               ELSE IF RisingEdge(sig, scan.i, threshold)
                    THEN IF scheme = "fixed-window"
                         THEN [scan EXCEPT !.idxs = Append(@, find_trigger_index(scan.i)),
                                           !.crossing = scan.i,
                                           !.i = @ + 1]
                         ELSE [scan EXCEPT !.pc = "while_j", !.j = scan.i, !.count = 0,
                                           !.crossing = scan.i]
                    ELSE [scan EXCEPT !.i = @ + 1],
               valid_triggers, triggers)

\* `while (j < n && signal[j] > threshold)`, with the count and the break
\* of the debounce branch
WhileAboveThreshold ==
    /\ scan.pc = "while_j"
    /\ LET sig == SignalOf(trigger_detector_name)
           cnt == scan.count + 1
       IN  ScanMove(
               IF scan.j < Len(sig) /\ At(sig, scan.j) > threshold
               THEN IF scheme = "dynamic" /\ debounce_enabled /\ min_window_duration # -1
                    THEN [scan EXCEPT !.j = @ + 1, !.count = cnt,
                                      !.pc = IF cnt >= min_window_duration
                                             THEN "after_j" ELSE "while_j"]
                    ELSE [scan EXCEPT !.j = @ + 1]
               ELSE [scan EXCEPT !.pc = "after_j"],
               valid_triggers, triggers)

\* after that loop: `if (count < min_window_duration) { i = j; continue; }`,
\* else on to the window
AfterRun ==
    /\ scan.pc = "after_j"
    /\ ScanMove(
           IF /\ scheme = "dynamic" /\ debounce_enabled /\ min_window_duration # -1
              /\ DebounceRejects(scan.count, min_window_duration)
           THEN [scan EXCEPT !.i = ResumeAfter(scan.i, scan.j), !.pc = "for"]
           ELSE [scan EXCEPT !.k = scan.j,
                             !.pc = IF scheme = "dynamic" THEN "while_k" ELSE "emit"],
           valid_triggers, triggers)

\* `while (k < n && signal[k] > lower_threshold) ++k;`
WhileAboveLower ==
    /\ scan.pc = "while_k"
    /\ LET sig == SignalOf(trigger_detector_name)
       IN  ScanMove(
               IF scan.k < Len(sig)
                  /\ At(sig, scan.k) > HysteresisLevel(threshold, lower_threshold.v)
               THEN [scan EXCEPT !.k = @ + 1]
               ELSE [scan EXCEPT !.pc = "emit"],
               valid_triggers, triggers)

\* start, end, the overlap test, the max_triggers break, and `i = k`
EmitWindow ==
    /\ scan.pc = "emit"
    /\ LET n      == Len(SignalOf(trigger_detector_name))
           start  == DynStart(scan.i, pre_buffer)
           end    == DynEnd(scan.k, post_buffer, n)
           acc    == start > scan.last_end
           valid2 == IF acc THEN Append(valid_triggers, <<start, end>>) ELSE valid_triggers
           le2    == NextLastEnd(acc, end, scan.last_end)
       IN  ScanMove(
               IF MaxReached(valid2, max_triggers)
               THEN [scan EXCEPT !.last_end = le2, !.pc = "channel", !.c = 1]
               ELSE [scan EXCEPT !.last_end = le2, !.i = ResumeAfter(scan.i, scan.k),
                                 !.pc = "for"],
               valid2, triggers)

\* apply_buffer_constraints: `for (int idx : trigger_indices)`
BufferStep ==
    /\ scan.pc = "buffer"
    /\ IF scan.p > Len(scan.idxs)
       THEN ScanMove([scan EXCEPT !.pc = "channel", !.c = 1], valid_triggers, triggers)
       ELSE LET n      == Len(SignalOf(trigger_detector_name))
                idx    == scan.idxs[scan.p]
                start  == idx - FixedPreArg(pre_buffer)
                end    == idx + post_buffer
                acc    == start > scan.last_end
                valid2 == IF acc THEN Append(valid_triggers, <<start, end>>)
                          ELSE valid_triggers
                le2    == NextLastEnd(acc, end, scan.last_end)
            IN  IF start < 0 \/ end >= n
                THEN ScanMove([scan EXCEPT !.p = @ + 1], valid_triggers, triggers)
                ELSE ScanMove(
                         IF MaxReached(valid2, max_triggers)
                         THEN [scan EXCEPT !.last_end = le2, !.pc = "channel", !.c = 1]
                         ELSE [scan EXCEPT !.last_end = le2, !.p = @ + 1],
                         valid2, triggers)

\* extract_signal_segments: `for (struct trigger &trigger : triggers)`; past
\* the last channel run() returns
ChannelLoop ==
    /\ scan.pc = "channel"
    /\ IF scan.c > Len(triggers)
       THEN /\ scan' = [scan EXCEPT !.pc = "done"]
            /\ status' = RunOutcome(valid_triggers)
            /\ UNCHANGED <<lower_threshold, triggers, valid_triggers, cands, runs, params,
                           segvars, storevars, filtervars, acqvars>>
       ELSE ScanMove([scan EXCEPT !.pc = "window", !.w = 1], valid_triggers, triggers)

\* `for (const auto &[start, end] : valid_triggers)`
WindowLoop ==
    /\ scan.pc = "window"
    /\ ScanMove(
           IF scan.w > Len(valid_triggers)
           THEN [scan EXCEPT !.pc = "channel", !.c = @ + 1]
           ELSE [scan EXCEPT !.pc = "sample", !.x = valid_triggers[scan.w][1]],
           valid_triggers, triggers)

\* `for (int i = start; i <= end; ++i) { if (i >= buffer_size) break; push }`
SampleLoop ==
    /\ scan.pc = "sample"
    /\ LET t == triggers[scan.c]
       IN  IF scan.x <= valid_triggers[scan.w][2] /\ scan.x < Len(t.signal)
           THEN ScanMove([scan EXCEPT !.x = @ + 1], valid_triggers,
                         [triggers EXCEPT
                             ![scan.c].signal_out = Append(@, At(t.signal, scan.x)),
                             ![scan.c].time_out = Append(@, At(global_time, scan.x)),
                             ![scan.c].segment_ids_out = Append(@, scan.w - 1)])
           ELSE ScanMove([scan EXCEPT !.pc = "window", !.w = @ + 1],
                         valid_triggers, triggers)

ScanNext ==
    \/ StartRun
    \/ ForTest
    \/ WhileAboveThreshold
    \/ AfterRun
    \/ WhileAboveLower
    \/ EmitWindow
    \/ BufferStep
    \/ ChannelLoop
    \/ WindowLoop
    \/ SampleLoop

\* run() is one sequential call: while it has a statement to execute, it
\* executes it
ScanSpec == ScanInit /\ [][ScanNext]_vars /\ WF_vars(ScanNext)

\* run() has returned or thrown
ScanDone == scan.pc = "done"

\* what each step does to the loop variables
IndexIncreases ==
    /\ scan'.i >= scan.i
    /\ (scan.pc = "for" /\ scan'.pc = "for") => scan'.i > scan.i
    /\ (scan.pc \in {"after_j", "emit"} /\ scan'.pc = "for") =>
           scan'.i > scan.crossing /\ scan'.i > scan.i
    /\ (scan.pc = "for" /\ scan'.pc = "for" /\ scan'.crossing # scan.crossing) =>
           scan'.i > scan'.crossing
    /\ (scan.pc = "while_j" /\ scan'.pc = "while_j") => scan'.j > scan.j
    /\ (scan.pc = "while_k" /\ scan'.pc = "while_k") => scan'.k > scan.k
    /\ (scan.pc = "buffer" /\ scan'.pc = "buffer") => scan'.p > scan.p
    /\ (scan.pc = "sample" /\ scan'.pc = "sample") => scan'.x > scan.x
    /\ (scan.pc = "sample" /\ scan'.pc = "window") => scan'.w > scan.w
    /\ (scan.pc = "window" /\ scan'.pc = "channel") => scan'.c > scan.c

\* C30: every trigger run followed by segment extraction terminates, for
\* every finite signal and every parameter choice (min_window_duration = 0
\* and empty or one-sample signals included): run() reaches its end, every
\* step that stays in a loop increases that loop's index, and after a
\* crossing the scan resumes at an index greater than the crossing index.
C30_RunTerminates == <>ScanDone /\ [][IndexIncreases]_vars

\* C30, the case: a run with debounce on and min_window_duration = 0 took up
\* a crossing, resumed after it, went through the extraction and returned.
C30_Witness ==
    /\ ScanDone
    /\ status = "ok"
    /\ scheme = "dynamic"
    /\ debounce_enabled
    /\ min_window_duration = 0
    /\ scan.crossing >= 1
    /\ scan.i > scan.crossing
    /\ triggers[1].signal_out # <<>>

\* C30, reachable: the runs on an empty and on a one-sample signal return.
C30_EmptySignalReturns ==
    ScanDone /\ status = "warned" /\ triggers[1].signal = <<>>

C30_OneSampleReturns ==
    ScanDone /\ status = "warned" /\ Len(triggers[1].signal) = 1

\* C30, reachable: a crossing refused by the debounce test, after which the
\* scan resumed beyond it and the run returned without a window.
C30_ResumedAfterRefusal ==
    /\ ScanDone
    /\ scheme = "dynamic" /\ debounce_enabled /\ min_window_duration >= 2
    /\ scan.crossing >= 1
    /\ scan.i > scan.crossing
    /\ valid_triggers = <<>>

\* the run followed step by step ends with the windows and the outputs that
\* Run gives in one step
StepwiseAgreesWithRun ==
    (ScanDone /\ status # "error") =>
        LET res   == RunScheme(SignalOf(trigger_detector_name))
            fresh == [q \in DOMAIN triggers |->
                          NewTrigger(triggers[q].detector_name, triggers[q].signal)]
        IN  /\ valid_triggers = res.valid
            /\ triggers = extract_signal_segments(fresh, res.valid, global_time)
            /\ status = RunOutcome(res.valid)

====
